---- MODULE Spec2Model ----
(***************************************************************************)
(* State-machine model of the api-client engine (src/src/app.rs): the      *)
(* request composer, the saved-request index kept in step with a folder on *)
(* disk, and the asynchronous dispatch of one HTTP call.                   *)
(*                                                                         *)
(* Text is modelled as a sequence of one-character strings, so that the    *)
(* character-level code of the source (sanitising, percent-encoding, file  *)
(* stem and extension, byte-wise comparison) is computed, not assumed.     *)
(* Indices are 0-based as in the source; saved_requests[i + 1] is the      *)
(* entry the source calls saved_requests[i].                               *)
(***************************************************************************)
EXTENDS Integers, Sequences, FiniteSets, TLC

VARIABLES
    url_input, name_input, body_input, params, headers, method,
    response_body, response_is_large, is_loading, response_status, response_time,
    current_folder, saved_requests, selected_request,
    rename_input, renaming_index,
    git_service, current_branch, git_changes, repo_statuses,
    fs, readdir_rev, fs_changes, config, tasks, spawned, panicked, last

composerVars == <<url_input, name_input, body_input, params, headers, method>>
responseVars == <<response_body, response_is_large, is_loading, response_status, response_time>>
storeVars == <<current_folder, saved_requests, selected_request>>
renameVars == <<rename_input, renaming_index>>
gitVars == <<git_service, current_branch, git_changes, repo_statuses>>
envVars == <<fs, readdir_rev, fs_changes, config>>
vars == <<composerVars, responseVars, storeVars, renameVars, gitVars, envVars,
          tasks, spawned, panicked, last>>

----------------------------------------------------------------------------
(* Option<T>: the empty sequence is None, a one-element sequence is Some.   *)
None == <<>>
Some(x) == <<x>>
IsSome(o) == o # <<>>
Unwrap(o) == o[1]

----------------------------------------------------------------------------
(* Bounds of the model.                                                     *)
MaxFsChanges == 1
MaxRows == 2
MaxDispatches == 2

----------------------------------------------------------------------------
(* Characters: printable ASCII, position i holds the character of code     *)
(* 31 + i (code 96 is spelled out: the lexer rejects it inside a string).   *)
AsciiChars ==
    <<" ", "!", "\"", "#", "$", "%", "&", "'", "(", ")", "*", "+", ",", "-", ".", "/",
      "0", "1", "2", "3", "4", "5", "6", "7", "8", "9", ":", ";", "<", "=", ">", "?",
      "@", "A", "B", "C", "D", "E", "F", "G", "H", "I", "J", "K", "L", "M", "N", "O",
      "P", "Q", "R", "S", "T", "U", "V", "W", "X", "Y", "Z", "[", "\\", "]", "^", "_",
      "grave", "a", "b", "c", "d", "e", "f", "g", "h", "i", "j", "k", "l", "m", "n", "o",
      "p", "q", "r", "s", "t", "u", "v", "w", "x", "y", "z", "{", "|", "}", "~">>

CodeTable ==
    [c \in {AsciiChars[i] : i \in 1..Len(AsciiChars)} |->
        31 + (CHOOSE i \in 1..Len(AsciiChars) : AsciiChars[i] = c)]
Code(c) == CodeTable[c]
CharOf(n) == AsciiChars[n - 31]

IsDigit(c) == Code(c) >= 48 /\ Code(c) <= 57
IsUpper(c) == Code(c) >= 65 /\ Code(c) <= 90
IsLower(c) == Code(c) >= 97 /\ Code(c) <= 122
is_alphanumeric(c) == IsDigit(c) \/ IsUpper(c) \/ IsLower(c)

RECURSIVE Concat(_)
Concat(ss) == IF ss = <<>> THEN <<>> ELSE Head(ss) \o Concat(Tail(ss))

RECURSIVE Join(_, _)
Join(ss, sep) ==
    IF ss = <<>> THEN <<>>
    ELSE IF Len(ss) = 1 THEN ss[1]
    ELSE ss[1] \o sep \o Join(Tail(ss), sep)

Contains(s, c) == \E i \in 1..Len(s) : s[i] = c
ends_with(s, suf) ==
    Len(s) >= Len(suf) /\ SubSeq(s, Len(s) - Len(suf) + 1, Len(s)) = suf
RemoveChar(s, c) == SelectSeq(s, LAMBDA x : x # c)

ToUpperChar(c) == IF IsLower(c) THEN CharOf(Code(c) - 32) ELSE c
to_uppercase(s) == [i \in 1..Len(s) |-> ToUpperChar(s[i])]

(* Byte-wise lexicographic order of String::cmp.                            *)
RECURSIVE StrLess(_, _)
StrLess(a, b) ==
    IF b = <<>> THEN FALSE
    ELSE IF a = <<>> THEN TRUE
    ELSE IF a[1] = b[1] THEN StrLess(Tail(a), Tail(b))
    ELSE Code(a[1]) < Code(b[1])
StrLeq(a, b) == a = b \/ StrLess(a, b)

(* Decimal rendering of a usize by format!("{}", n).                        *)
RECURSIVE Decimal(_)
Decimal(n) ==
    IF n < 10 THEN <<CharOf(48 + n)>>
    ELSE Decimal(n \div 10) \o <<CharOf(48 + (n % 10))>>

HexDigit(n) == IF n < 10 THEN CharOf(48 + n) ELSE CharOf(55 + n)

(* Simple URL encoding helper.                                              *)
EncodeChar(c) ==
    IF is_alphanumeric(c) \/ c \in {"-", "_", ".", "~"} THEN <<c>>
    ELSE IF c = " " THEN <<"+">>
    ELSE <<"%", HexDigit(Code(c) \div 16), HexDigit(Code(c) % 16)>>
urlencoding(s) == Concat([i \in 1..Len(s) |-> EncodeChar(s[i])])

----------------------------------------------------------------------------
(* Literals of the source.                                                  *)
DotJson == <<".", "j", "s", "o", "n">>
ExtJson == <<"j", "s", "o", "n">>
ExtYaml == <<"y", "a", "m", "l">>
ExtYml == <<"y", "m", "l">>
NewRequestPrefix == <<"N", "e", "w", " ", "R", "e", "q", "u", "e", "s", "t", " ">>
DefaultName == <<"N", "e", "w", " ", "R", "e", "q", "u", "e", "s", "t">>
DefaultUrl ==
    <<"h", "t", "t", "p", "s", ":", "/", "/", "h", "t", "t", "p", "b", "i", "n", ".",
      "o", "r", "g", "/", "g", "e", "t">>
ContentType == <<"C", "o", "n", "t", "e", "n", "t", "-", "T", "y", "p", "e">>
ApplicationJson ==
    <<"a", "p", "p", "l", "i", "c", "a", "t", "i", "o", "n", "/", "j", "s", "o", "n">>

(* enum HttpMethod and its as_str / next.                                   *)
HttpMethod == {"Get", "Post", "Put", "Delete", "Patch"}
as_str(m) ==
    CASE m = "Get" -> <<"G", "E", "T">>
      [] m = "Post" -> <<"P", "O", "S", "T">>
      [] m = "Put" -> <<"P", "U", "T">>
      [] m = "Delete" -> <<"D", "E", "L", "E", "T", "E">>
      [] m = "Patch" -> <<"P", "A", "T", "C", "H">>
method_next(m) ==
    CASE m = "Get" -> "Post"
      [] m = "Post" -> "Put"
      [] m = "Put" -> "Delete"
      [] m = "Delete" -> "Patch"
      [] m = "Patch" -> "Get"

(* The match on request.method.to_uppercase() of parse_method_from_file:    *)
(* Some(method) for the five verbs, None otherwise.                         *)
MatchMethod(s) ==
    LET u == to_uppercase(s)
    IN  IF \E m \in HttpMethod : as_str(m) = u
        THEN Some(CHOOSE m \in HttpMethod : as_str(m) = u)
        ELSE None

(* struct KeyValuePair, as built by create_kv_pair (enabled: true).         *)
create_kv_pair(k, v) == [key |-> k, value |-> v, enabled |-> TRUE]

----------------------------------------------------------------------------
(* The filesystem.  fs[d] is the set of directory entries of folder d; an   *)
(* entry is a regular file or a sub-directory.  A file holds either a       *)
(* serialised SavedRequest or text serde_json cannot parse as one.          *)
Folders == {"/ws", "/alt", "/gone"}
(* "/gone" does not exist; "/alt" is read-only: it can be listed and its    *)
(* files read, but nothing in it can be written, removed or renamed.        *)
FolderExists(d) == d # "/gone"
FolderWritable(d) == d = "/ws"

(* struct SavedRequest; headers is the HashMap, a function key -> value.    *)
SavedRequest(n, m, u, h, b) ==
    [kind |-> "request", name |-> n, method |-> m, url |-> u, headers |-> h, body |-> b]
Garbage ==
    [kind |-> "garbage", name |-> <<>>, method |-> <<>>, url |-> <<>>,
     headers |-> <<>>, body |-> <<>>]

RegularFile(n, c) == [name |-> n, kind |-> "file", content |-> c]
SubDirectory(n) == [name |-> n, kind |-> "dir", content |-> Garbage]

(* PathBuf::join(folder, file name).                                        *)
PathJoin(d, f) == [dir |-> d, file |-> f]

EntriesAt(fsx, path) == {e \in fsx[path.dir] : e.name = path.file}
PathExists(fsx, path) == FolderExists(path.dir) /\ EntriesAt(fsx, path) # {}
EntryAt(fsx, path) == CHOOSE e \in EntriesAt(fsx, path) : TRUE
is_file(fsx, path) == PathExists(fsx, path) /\ EntryAt(fsx, path).kind = "file"

(* std::fs::read_to_string: Some(content) or None on error.                 *)
read_to_string(fsx, path) ==
    IF is_file(fsx, path) THEN Some(EntryAt(fsx, path).content) ELSE None

(* serde_json::from_str::<SavedRequest>: Some(request) or None on error.    *)
from_str(content) == IF content.kind = "request" THEN Some(content) ELSE None

(* std::fs::write; io is FALSE when the operating system refuses the call.  *)
fs_write(fsx, path, content, io) ==
    LET old == EntriesAt(fsx, path)
        ok == /\ io
              /\ FolderExists(path.dir) /\ FolderWritable(path.dir)
              /\ \A e \in old : e.kind = "file"
    IN  [ok |-> ok,
         fs |-> IF ok
                THEN [fsx EXCEPT ![path.dir] = (@ \ old) \cup {RegularFile(path.file, content)}]
                ELSE fsx]

(* std::fs::remove_file.                                                    *)
fs_remove_file(fsx, path, io) ==
    LET ok == io /\ FolderWritable(path.dir) /\ is_file(fsx, path)
    IN  [ok |-> ok,
         fs |-> IF ok THEN [fsx EXCEPT ![path.dir] = @ \ EntriesAt(fsx, path)] ELSE fsx]

(* std::fs::rename within one folder: replaces a file of the new name.      *)
fs_rename(fsx, old, new, io) ==
    LET src == EntriesAt(fsx, old)
        dst == EntriesAt(fsx, new)
        ok == /\ io
              /\ FolderWritable(old.dir)
              /\ PathExists(fsx, old)
              /\ \A e \in dst : e.kind = EntryAt(fsx, old).kind
    IN  [ok |-> ok,
         fs |-> IF ok /\ old # new
                THEN [fsx EXCEPT ![old.dir] =
                        (@ \ (src \cup dst)) \cup {[EntryAt(fsx, old) EXCEPT !.name = new.file]}]
                ELSE fsx]

(* Path::file_stem and Path::extension of a file name (rsplit_file_at_dot). *)
LastDot(f) ==
    IF Contains(f, ".")
    THEN CHOOSE i \in 1..Len(f) : f[i] = "." /\ \A j \in (i + 1)..Len(f) : f[j] # "."
    ELSE 0
file_stem(f) ==
    IF f = <<".", ".">> \/ LastDot(f) <= 1 THEN f ELSE SubSeq(f, 1, LastDot(f) - 1)
extension(f) ==
    IF f = <<".", ".">> \/ LastDot(f) <= 1 THEN None
    ELSE Some(SubSeq(f, LastDot(f) + 1, Len(f)))
unwrap_or(o, d) == IF IsSome(o) THEN Unwrap(o) ELSE d

(* std::fs::read_dir: the entries in an order the filesystem chooses.  The  *)
(* order is a function of the folder's contents (by file name, ascending or *)
(* descending as readdir_rev says), so it only changes when the folder does.*)
RECURSIVE ByFileName(_)
ByFileName(S) ==
    IF S = {} THEN <<>>
    ELSE LET m == CHOOSE e \in S : \A o \in S : StrLeq(e.name, o.name)
         IN  <<m>> \o ByFileName(S \ {m})
Reverse(s) == [i \in 1..Len(s) |-> s[Len(s) + 1 - i]]
read_dir(fsx, rev, d) == IF rev THEN Reverse(ByFileName(fsx[d])) ELSE ByFileName(fsx[d])

(* Parse HTTP method from a saved request file.                             *)
parse_method_from_file(fsx, path) ==
    LET content == read_to_string(fsx, path)
    IN  IF IsSome(content) /\ IsSome(from_str(Unwrap(content)))
        THEN MatchMethod(Unwrap(from_str(Unwrap(content))).method)
        ELSE None

(* struct FileEntry.                                                        *)
FileEntry(n, p, m) == [name |-> n, path |-> p, method |-> m]

(* Vec::sort_by(|a, b| a.name.cmp(&b.name)): stable, so entries of equal    *)
(* name keep the order they were pushed in.                                 *)
RECURSIVE sort_by_name(_)
sort_by_name(s) ==
    IF s = <<>> THEN <<>>
    ELSE LET x == s[Len(s)]
             front == sort_by_name(SubSeq(s, 1, Len(s) - 1))
             k == Cardinality({i \in 1..Len(front) : StrLeq(front[i].name, x.name)})
         IN  SubSeq(front, 1, k) \o <<x>> \o SubSeq(front, k + 1, Len(front))

(* A scan that does not ask whether the directory entry is a file.          *)
IsEligible_AnyKind(fsx, d, e) ==
    unwrap_or(extension(e.name), <<>>) \in {ExtJson, ExtYaml, ExtYml}

IsEligible(fsx, d, e) ==
    /\ is_file(fsx, PathJoin(d, e.name))
    /\ unwrap_or(extension(e.name), <<>>) \in {ExtJson, ExtYaml, ExtYml}

(* Scan folder for request files.                                           *)
scan_folder(fsx, rev, folder) ==
    LET listing == IF FolderExists(folder)
                   THEN read_dir(fsx, rev, folder) ELSE <<>>
        kept == SelectSeq(listing, LAMBDA e : IsEligible(fsx, folder, e))
        pushed == [i \in 1..Len(kept) |->
                     FileEntry(file_stem(kept[i].name),
                               PathJoin(folder, kept[i].name),
                               parse_method_from_file(fsx, PathJoin(folder, kept[i].name)))]
    IN  sort_by_name(pushed)

(* Load requests from current folder: the value load_folder assigns to      *)
(* saved_requests.                                                          *)
load_folder(fsx, rev, folder) ==
    IF IsSome(folder) THEN scan_folder(fsx, rev, Unwrap(folder)) ELSE <<>>

----------------------------------------------------------------------------
(* History of the last handler that ran: its name, its argument (an index,  *)
(* a folder or the path a save wrote to) and whether it succeeded; and, in  *)
(* prev, the handler that ran right before it when the two belong together: *)
(* a scan of the folder that was scanned last, a load of the entry that was *)
(* saved last, a delete made right after a rename was started, the          *)
(* confirmation of a rename right after such a delete, or a completion      *)
(* applied right after the completion of a successful dispatch.             *)
SaveOps == {"save_request", "save_new_request", "send_request"}
Follows(op, arg) ==
    /\ last.ok
    /\ CASE op = "open_folder" ->
              last.op \in {"new", "open_folder"} \cup SaveOps /\ current_folder = arg
         [] op = "load_request" ->
              /\ last.op \in SaveOps
              /\ IsSome(last.arg)
              /\ Unwrap(arg) < Len(saved_requests)
              /\ saved_requests[Unwrap(arg) + 1].path = Unwrap(last.arg)
         [] op = "delete_request" -> last.op = "start_renaming"
         [] op = "confirm_renaming" ->
              last.op = "delete_request" /\ last.prev = "start_renaming"
         [] op = "complete_request" -> last.op = "complete_request"
         [] OTHER -> FALSE
Record(op, arg, ok) ==
    [op |-> op, arg |-> arg, ok |-> ok, prev |-> IF Follows(op, arg) THEN last.op ELSE "-"]
InitLast == [op |-> "new", arg |-> None, ok |-> TRUE, prev |-> "-"]

----------------------------------------------------------------------------
(* The composer: what the user types into the input fields, and the rows   *)
(* of the header and parameter editors.                                     *)
set_url(u) ==
    /\ ~panicked
    /\ url_input' = u
    /\ last' = Record("set_url", None, TRUE)
    /\ UNCHANGED <<name_input, body_input, params, headers, method, responseVars,
                   storeVars, renameVars, gitVars, envVars, tasks, spawned, panicked>>

set_name(n) ==
    /\ ~panicked
    /\ name_input' = n
    /\ last' = Record("set_name", None, TRUE)
    /\ UNCHANGED <<url_input, body_input, params, headers, method, responseVars,
                   storeVars, renameVars, gitVars, envVars, tasks, spawned, panicked>>

set_body(b) ==
    /\ ~panicked
    /\ body_input' = b
    /\ last' = Record("set_body", None, TRUE)
    /\ UNCHANGED <<url_input, name_input, params, headers, method, responseVars,
                   storeVars, renameVars, gitVars, envVars, tasks, spawned, panicked>>

(* The method button: this.method = this.method.next().                     *)
cycle_method ==
    /\ ~panicked
    /\ method' = method_next(method)
    /\ last' = Record("cycle_method", None, TRUE)
    /\ UNCHANGED <<url_input, name_input, body_input, params, headers, responseVars,
                   storeVars, renameVars, gitVars, envVars, tasks, spawned, panicked>>

add_header ==
    /\ ~panicked
    /\ Len(headers) < MaxRows
    /\ headers' = Append(headers, create_kv_pair(<<>>, <<>>))
    /\ last' = Record("add_header", None, TRUE)
    /\ UNCHANGED <<url_input, name_input, body_input, params, method, responseVars,
                   storeVars, renameVars, gitVars, envVars, tasks, spawned, panicked>>

add_param ==
    /\ ~panicked
    /\ Len(params) < MaxRows
    /\ params' = Append(params, create_kv_pair(<<>>, <<>>))
    /\ last' = Record("add_param", None, TRUE)
    /\ UNCHANGED <<url_input, name_input, body_input, headers, method, responseVars,
                   storeVars, renameVars, gitVars, envVars, tasks, spawned, panicked>>

(* Typing into the key and value inputs of header row i (0-based).          *)
edit_header(i, k, v) ==
    /\ ~panicked
    /\ i < Len(headers)
    /\ headers' = [headers EXCEPT ![i + 1].key = k, ![i + 1].value = v]
    /\ last' = Record("edit_header", Some(i), TRUE)
    /\ UNCHANGED <<url_input, name_input, body_input, params, method, responseVars,
                   storeVars, renameVars, gitVars, envVars, tasks, spawned, panicked>>

edit_param(i, k, v) ==
    /\ ~panicked
    /\ i < Len(params)
    /\ params' = [params EXCEPT ![i + 1].key = k, ![i + 1].value = v]
    /\ last' = Record("edit_param", Some(i), TRUE)
    /\ UNCHANGED <<url_input, name_input, body_input, headers, method, responseVars,
                   storeVars, renameVars, gitVars, envVars, tasks, spawned, panicked>>

RemoveAt(s, i) == SubSeq(s, 1, i) \o SubSeq(s, i + 2, Len(s))

(* The delete button of a row: the row is removed unless it is the only one.*)
remove_header(i) ==
    /\ ~panicked
    /\ i < Len(headers)
    /\ headers' = IF Len(headers) > 1 THEN RemoveAt(headers, i) ELSE headers
    /\ last' = Record("remove_header", Some(i), TRUE)
    /\ UNCHANGED <<url_input, name_input, body_input, params, method, responseVars,
                   storeVars, renameVars, gitVars, envVars, tasks, spawned, panicked>>

remove_param(i) ==
    /\ ~panicked
    /\ i < Len(params)
    /\ params' = IF Len(params) > 1 THEN RemoveAt(params, i) ELSE params
    /\ last' = Record("remove_param", Some(i), TRUE)
    /\ UNCHANGED <<url_input, name_input, body_input, headers, method, responseVars,
                   storeVars, renameVars, gitVars, envVars, tasks, spawned, panicked>>

----------------------------------------------------------------------------
(* The workspace store.                                                     *)

(* An open_folder that adds the scanned entries to the list it had.         *)
open_folder_Appending(path) ==
    /\ ~panicked
    /\ current_folder' = Some(path)
    /\ config' = Some(path)
    /\ saved_requests' = saved_requests \o load_folder(fs, readdir_rev, Some(path))
    /\ last' = Record("open_folder", Some(path), TRUE)
    /\ UNCHANGED <<composerVars, responseVars, selected_request, renameVars, gitVars,
                   fs, readdir_rev, fs_changes, tasks, spawned, panicked>>

(* Open folder dialog and load requests: the update that runs once the      *)
(* dialog has returned the picked folder.                                   *)
open_folder(path) ==
    /\ ~panicked
    /\ current_folder' = Some(path)
    /\ config' = Some(path)
    /\ saved_requests' = load_folder(fs, readdir_rev, Some(path))
    /\ last' = Record("open_folder", Some(path), TRUE)
    /\ UNCHANGED <<composerVars, responseVars, selected_request, renameVars, gitVars,
                   fs, readdir_rev, fs_changes, tasks, spawned, panicked>>

(* A map in which the first row of a key wins over the later ones.          *)
InsertAll_FirstWins(rows) ==
    [k \in {rows[i].key : i \in 1..Len(rows)} \ {<<>>} |->
        rows[CHOOSE i \in 1..Len(rows) :
               rows[i].key = k /\ \A j \in 1..(i - 1) : rows[j].key # k].value]

(* save_request: the HashMap built from the header rows; a row with an      *)
(* empty key is skipped, a later row of the same key replaces the earlier.  *)
RECURSIVE InsertAll(_)
InsertAll(rows) ==
    IF rows = <<>> THEN <<>>
    ELSE LET m == InsertAll(SubSeq(rows, 1, Len(rows) - 1))
             kv == rows[Len(rows)]
         IN  IF kv.key # <<>>
             THEN [k \in DOMAIN m \cup {kv.key} |-> IF k = kv.key THEN kv.value ELSE m[k]]
             ELSE m

(* A default name numbered with the count of entries, not the count + 1.    *)
SaveName_Count(name, count) ==
    IF name = <<>> THEN NewRequestPrefix \o Decimal(count) ELSE name

(* save_request: "If name is empty, provide a default".                     *)
SaveName(name, count) ==
    IF name = <<>> THEN NewRequestPrefix \o Decimal(count + 1) ELSE name

(* save_request: every non-alphanumeric character becomes '-'.              *)
SafeChar(c) == IF is_alphanumeric(c) THEN c ELSE "-"
safe_name(name) == [i \in 1..Len(name) |-> SafeChar(name[i])]

SaveRecord ==
    SavedRequest(SaveName(name_input, Len(saved_requests)), as_str(method), url_input,
                 InsertAll(headers), body_input)

(* A save that always creates the file named after the request.             *)
SavePath_AlwaysNew(sel) ==
    PathJoin(Unwrap(current_folder),
             safe_name(SaveName(name_input, Len(saved_requests))) \o DotJson)

(* save_request: the path written to, given the selection sel it runs       *)
(* with ("Overwrite existing file" or "Create new file").                   *)
SavePath(sel) ==
    IF IsSome(sel)
    THEN saved_requests[Unwrap(sel) + 1].path
    ELSE PathJoin(Unwrap(current_folder),
                  safe_name(SaveName(name_input, Len(saved_requests))) \o DotJson)

(* Vec::iter().position(|r| r.path == path).                                *)
Position(entries, path) ==
    IF \E i \in 1..Len(entries) : entries[i].path = path
    THEN Some((CHOOSE i \in 1..Len(entries) :
                 /\ entries[i].path = path
                 /\ \A j \in 1..(i - 1) : entries[j].path # path) - 1)
    ELSE None

(* save_request: the selection after a write that succeeded.                *)
SelectAfterSave(entries, path, sel) ==
    IF IsSome(Position(entries, path)) THEN Position(entries, path) ELSE sel

(* A save that does not ask for current_folder and writes into "/ws".       *)
SaveOutcome_FallbackFolder(sel, io) ==
    LET path == PathJoin("/ws", safe_name(SaveName(name_input, Len(saved_requests))) \o DotJson)
        w == fs_write(fs, path, SaveRecord, io)
    IN  [fs |-> w.fs, saved_requests |-> saved_requests, selected_request |-> sel,
         panicked |-> FALSE, path |-> Some(path), ok |-> w.ok]

(* Save current request to file, run with selection sel; io is the          *)
(* operating system's answer to the write.  Indexing saved_requests with a  *)
(* selection past its end panics.  The result is the state the save leaves  *)
(* and what it did: the path it wrote to and whether the write succeeded.   *)
SaveOutcome(sel, io) ==
    IF current_folder = None
    THEN [fs |-> fs, saved_requests |-> saved_requests, selected_request |-> sel,
          panicked |-> FALSE, path |-> None, ok |-> FALSE]
    ELSE IF IsSome(sel) /\ Unwrap(sel) >= Len(saved_requests)
    THEN [fs |-> fs, saved_requests |-> saved_requests, selected_request |-> sel,
          panicked |-> TRUE, path |-> None, ok |-> FALSE]
    ELSE LET path == SavePath(sel)
             w == fs_write(fs, path, SaveRecord, io)
             entries == load_folder(w.fs, readdir_rev, current_folder)
         IN  [fs |-> w.fs,
              saved_requests |-> IF w.ok THEN entries ELSE saved_requests,
              selected_request |-> IF w.ok THEN SelectAfterSave(entries, path, sel) ELSE sel,
              panicked |-> FALSE, path |-> Some(path), ok |-> w.ok]

save_request(io) ==
    /\ ~panicked
    /\ LET o == SaveOutcome(selected_request, io)
       IN  /\ fs' = o.fs
           /\ saved_requests' = o.saved_requests
           /\ selected_request' = o.selected_request
           /\ panicked' = o.panicked
           /\ fs_changes' = fs_changes + (IF o.ok THEN 1 ELSE 0)
           /\ last' = Record("save_request", o.path, o.ok)
    /\ UNCHANGED <<composerVars, responseVars, current_folder, renameVars, gitVars,
                   readdir_rev, config, tasks, spawned>>

(* Save as new request: clears the selection, then saves.                   *)
save_new_request(io) ==
    /\ ~panicked
    /\ LET o == SaveOutcome(None, io)
       IN  /\ fs' = o.fs
           /\ saved_requests' = o.saved_requests
           /\ selected_request' = o.selected_request
           /\ panicked' = o.panicked
           /\ fs_changes' = fs_changes + (IF o.ok THEN 1 ELSE 0)
           /\ last' = Record("save_new_request", o.path, o.ok)
    /\ UNCHANGED <<composerVars, responseVars, current_folder, renameVars, gitVars,
                   readdir_rev, config, tasks, spawned>>

(* load_request: the header rows built from the file's map, in the order    *)
(* HashMap::iter yields them (any order), plus the empty row.               *)
RowOrders(m) ==
    {o \in [1..Cardinality(DOMAIN m) -> DOMAIN m] :
        \A i, j \in DOMAIN o : i # j => o[i] # o[j]}
LoadedRows(m, o) ==
    [i \in 1..Len(o) |-> create_kv_pair(o[i], m[o[i]])] \o <<create_kv_pair(<<>>, <<>>)>>

(* load_request: the body input is only set when the file's body is not     *)
(* empty.                                                                   *)
LoadedBody(old, new) == IF new # <<>> THEN new ELSE old

(* load_request: unrecognised method strings fall back to Get.              *)
LoadedMethod(m) == unwrap_or(MatchMethod(m), "Get")

LoadResult(index) ==
    IF index < Len(saved_requests)
    THEN LET content == read_to_string(fs, saved_requests[index + 1].path)
         IN  IF IsSome(content) THEN from_str(Unwrap(content)) ELSE None
    ELSE None

(* A load that selects the entry asked for even when nothing was loaded.    *)
load_request_SelectingOnFailure(index) ==
    /\ ~panicked
    /\ LET request == LoadResult(index)
       IN  IF IsSome(request)
           THEN /\ name_input' = Unwrap(request).name
                /\ method' = LoadedMethod(Unwrap(request).method)
                /\ url_input' = Unwrap(request).url
                /\ body_input' = LoadedBody(body_input, Unwrap(request).body)
                /\ \E o \in RowOrders(Unwrap(request).headers) :
                      headers' = LoadedRows(Unwrap(request).headers, o)
                /\ selected_request' = Some(index)
                /\ last' = Record("load_request", Some(index), TRUE)
           ELSE /\ UNCHANGED <<name_input, method, url_input, body_input, headers>>
                /\ selected_request' = Some(index)
                /\ last' = Record("load_request", Some(index), FALSE)
    /\ UNCHANGED <<params, responseVars, current_folder, saved_requests, renameVars,
                   gitVars, envVars, tasks, spawned, panicked>>

(* Load a saved request into the editor.                                    *)
load_request(index) ==
    /\ ~panicked
    /\ LET request == LoadResult(index)
       IN  IF IsSome(request)
           THEN /\ name_input' = Unwrap(request).name
                /\ method' = LoadedMethod(Unwrap(request).method)
                /\ url_input' = Unwrap(request).url
                /\ body_input' = LoadedBody(body_input, Unwrap(request).body)
                /\ \E o \in RowOrders(Unwrap(request).headers) :
                      headers' = LoadedRows(Unwrap(request).headers, o)
                /\ selected_request' = Some(index)
                /\ last' = Record("load_request", Some(index), TRUE)
           ELSE /\ UNCHANGED <<name_input, method, url_input, body_input, headers,
                               selected_request>>
                /\ last' = Record("load_request", Some(index), FALSE)
    /\ UNCHANGED <<params, responseVars, current_folder, saved_requests, renameVars,
                   gitVars, envVars, tasks, spawned, panicked>>

(* delete_request and confirm_renaming: the file name derived from the      *)
(* entry's name.                                                            *)
JsonFileName(name) == IF ends_with(name, DotJson) THEN name ELSE name \o DotJson

(* A delete that clears the selection of the deleted entry but does not     *)
(* shift the selection of a later one.                                      *)
SelectedAfterDelete_NoShift(selected, index) ==
    IF selected = Some(index) THEN None ELSE selected

(* delete_request: "Update selected index".                                 *)
SelectedAfterDelete(selected, index) ==
    IF IsSome(selected)
    THEN IF Unwrap(selected) = index THEN None
         ELSE IF Unwrap(selected) > index THEN Some(Unwrap(selected) - 1)
         ELSE selected
    ELSE selected

(* A delete that drops the entry whether or not the file was removed.       *)
delete_request_IgnoringResult(index, io) ==
    /\ ~panicked
    /\ IF IsSome(current_folder) /\ index < Len(saved_requests)
       THEN LET path == PathJoin(Unwrap(current_folder),
                                 JsonFileName(saved_requests[index + 1].name))
                r == fs_remove_file(fs, path, io)
            IN  /\ fs' = r.fs
                /\ saved_requests' = RemoveAt(saved_requests, index)
                /\ selected_request' = SelectedAfterDelete(selected_request, index)
                /\ fs_changes' = fs_changes + (IF r.ok THEN 1 ELSE 0)
                /\ last' = Record("delete_request", Some(index), r.ok)
       ELSE /\ UNCHANGED <<fs, saved_requests, selected_request, fs_changes>>
            /\ last' = Record("delete_request", Some(index), FALSE)
    /\ UNCHANGED <<composerVars, responseVars, current_folder, renameVars, gitVars,
                   readdir_rev, config, tasks, spawned, panicked>>

(* Delete a request.                                                        *)
delete_request(index, io) ==
    /\ ~panicked
    /\ IF IsSome(current_folder) /\ index < Len(saved_requests)
       THEN LET path == PathJoin(Unwrap(current_folder),
                                 JsonFileName(saved_requests[index + 1].name))
                r == fs_remove_file(fs, path, io)
            IN  /\ fs' = r.fs
                /\ saved_requests' =
                      IF r.ok THEN RemoveAt(saved_requests, index) ELSE saved_requests
                /\ selected_request' =
                      IF r.ok THEN SelectedAfterDelete(selected_request, index)
                      ELSE selected_request
                /\ fs_changes' = fs_changes + (IF r.ok THEN 1 ELSE 0)
                /\ last' = Record("delete_request", Some(index), r.ok)
       ELSE /\ UNCHANGED <<fs, saved_requests, selected_request, fs_changes>>
            /\ last' = Record("delete_request", Some(index), FALSE)
    /\ UNCHANGED <<composerVars, responseVars, current_folder, renameVars, gitVars,
                   readdir_rev, config, tasks, spawned, panicked>>

(* start_renaming: the text put into the rename input.                      *)
StripJson(name) ==
    IF ends_with(name, DotJson) THEN SubSeq(name, 1, Len(name) - 5) ELSE name

(* Start renaming a request.                                                *)
start_renaming(index) ==
    /\ ~panicked
    /\ IF index < Len(saved_requests)
       THEN /\ renaming_index' = Some(index)
            /\ rename_input' = StripJson(saved_requests[index + 1].name)
       ELSE UNCHANGED renameVars
    /\ last' = Record("start_renaming", Some(index), index < Len(saved_requests))
    /\ UNCHANGED <<composerVars, responseVars, storeVars, gitVars, envVars, tasks,
                   spawned, panicked>>

(* Typing into the rename input.                                            *)
set_rename_input(n) ==
    /\ ~panicked
    /\ IsSome(renaming_index)
    /\ rename_input' = n
    /\ last' = Record("set_rename_input", None, TRUE)
    /\ UNCHANGED <<composerVars, responseVars, storeVars, renaming_index, gitVars,
                   envVars, tasks, spawned, panicked>>

(* Cancel renaming.                                                         *)
cancel_renaming ==
    /\ ~panicked
    /\ renaming_index' = None
    /\ last' = Record("cancel_renaming", None, TRUE)
    /\ UNCHANGED <<composerVars, responseVars, storeVars, rename_input, gitVars,
                   envVars, tasks, spawned, panicked>>

(* confirm_renaming: the sanitised new name.                                *)
RenameSafeName(new_name) ==
    RemoveChar(RemoveChar(RemoveChar(urlencoding(new_name), "%"), "/"), "\\")

(* A rename that rescans the folder after a successful rename.              *)
confirm_renaming_Rescanning(io) ==
    /\ ~panicked
    /\ IF /\ IsSome(renaming_index)
          /\ IsSome(current_folder)
          /\ Unwrap(renaming_index) < Len(saved_requests)
       THEN LET index == Unwrap(renaming_index)
                name == RenameSafeName(rename_input)
                folder == Unwrap(current_folder)
                old_filename == JsonFileName(saved_requests[index + 1].name)
                new_filename == name \o DotJson
                r == fs_rename(fs, PathJoin(folder, old_filename),
                               PathJoin(folder, new_filename), io)
            IN  IF name = <<>>
                THEN /\ UNCHANGED <<fs, saved_requests, renaming_index, fs_changes>>
                     /\ last' = Record("confirm_renaming", Some(index), FALSE)
                ELSE /\ fs' = r.fs
                     /\ fs_changes' = fs_changes + (IF r.ok THEN 1 ELSE 0)
                     /\ saved_requests' =
                           IF r.ok
                           THEN load_folder(r.fs, readdir_rev, current_folder)
                           ELSE saved_requests
                     /\ renaming_index' = None
                     /\ last' = Record("confirm_renaming", Some(index), r.ok)
       ELSE /\ UNCHANGED <<fs, saved_requests, fs_changes>>
            /\ renaming_index' = None
            /\ last' = Record("confirm_renaming", renaming_index, FALSE)
    /\ UNCHANGED <<composerVars, responseVars, current_folder, selected_request,
                   rename_input, gitVars, readdir_rev, config, tasks, spawned, panicked>>

(* Confirm renaming.  An empty sanitised name returns before the rename     *)
(* state is reset.                                                          *)
confirm_renaming(io) ==
    /\ ~panicked
    /\ IF /\ IsSome(renaming_index)
          /\ IsSome(current_folder)
          /\ Unwrap(renaming_index) < Len(saved_requests)
       THEN LET index == Unwrap(renaming_index)
                name == RenameSafeName(rename_input)
                folder == Unwrap(current_folder)
                old_filename == JsonFileName(saved_requests[index + 1].name)
                new_filename == name \o DotJson
                r == fs_rename(fs, PathJoin(folder, old_filename),
                               PathJoin(folder, new_filename), io)
            IN  IF name = <<>>
                THEN /\ UNCHANGED <<fs, saved_requests, renaming_index, fs_changes>>
                     /\ last' = Record("confirm_renaming", Some(index), FALSE)
                ELSE /\ fs' = r.fs
                     /\ fs_changes' = fs_changes + (IF r.ok THEN 1 ELSE 0)
                     /\ saved_requests' =
                           IF r.ok
                           THEN [saved_requests EXCEPT ![index + 1].name = new_filename]
                           ELSE saved_requests
                     /\ renaming_index' = None
                     /\ last' = Record("confirm_renaming", Some(index), r.ok)
       ELSE /\ UNCHANGED <<fs, saved_requests, fs_changes>>
            /\ renaming_index' = None
            /\ last' = Record("confirm_renaming", renaming_index, FALSE)
    /\ UNCHANGED <<composerVars, responseVars, current_folder, selected_request,
                   rename_input, gitVars, readdir_rev, config, tasks, spawned, panicked>>

----------------------------------------------------------------------------
(* Request dispatch.                                                        *)

(* Rows that count whether enabled or not.                                  *)
EffectiveRows_IgnoringEnabled(rows) ==
    SelectSeq([i \in 1..Len(rows) |-> <<rows[i].key, rows[i].value>>],
              LAMBDA kv : kv[1] # <<>>)

(* The rows that count: enabled, and with a key that is not empty.          *)
EffectiveRows(rows) ==
    LET enabled == SelectSeq(rows, LAMBDA r : r.enabled)
        pairs == [i \in 1..Len(enabled) |-> <<enabled[i].key, enabled[i].value>>]
    IN  SelectSeq(pairs, LAMBDA kv : kv[1] # <<>>)

build_url_with_params(base_url, rows) ==
    LET ps == EffectiveRows(rows)
        query == Join([i \in 1..Len(ps) |->
                         urlencoding(ps[i][1]) \o <<"=">> \o urlencoding(ps[i][2])],
                      <<"&">>)
    IN  IF ps = <<>> THEN base_url
        ELSE IF Contains(base_url, "?") THEN base_url \o <<"&">> \o query
        ELSE base_url \o <<"?">> \o query

get_headers(rows) == EffectiveRows(rows)

(* A response body: its text, its length in bytes, whether serde_json       *)
(* parses it, and the length of its pretty-printed form.  Bodies of 100,000 *)
(* bytes are named by text, not spelled out.                                *)
Body(t, n, j, p) == [text |-> t, len |-> n, json |-> j, pretty_len |-> p]
EmptyBody == Body("", 0, FALSE, 0)

(* serde_json::to_string_pretty of the parsed body.                         *)
to_string_pretty(b) == Body("pretty:" \o b.text, b.pretty_len, TRUE, b.pretty_len)

MAX_RESPONSE_DISPLAY_BYTES == 100000

(* send_request, completion: the label of a status code.                    *)
status_text(status) ==
    IF status >= 200 /\ status < 300 THEN "OK"
    ELSE IF status >= 400 /\ status < 500 THEN "Client Error"
    ELSE IF status >= 500 THEN "Server Error"
    ELSE "Response"

(* A guard that already trips at the threshold.                             *)
is_large_AtThreshold(body) == body.len >= MAX_RESPONSE_DISPLAY_BYTES

(* send_request, completion: response_is_large.                             *)
is_large(body) == body.len > MAX_RESPONSE_DISPLAY_BYTES

(* send_request, completion: "Try to format JSON response when it's safe to *)
(* display".                                                                *)
StoredBody(body) ==
    IF is_large(body) THEN body
    ELSE IF body.json THEN to_string_pretty(body)
    ELSE body

(* An error body that is the bare message.                                  *)
ErrorBody_Bare(e) == Body(e, Len(e), FALSE, 0)

(* send_request, completion: the body shown for Err(e).                     *)
ErrorBody(e) == Body("Error: " \o e, 7 + Len(e), FALSE, 0)

(* Result<(u16, String), String>.                                           *)
Ok(status, body) == [ok |-> TRUE, status |-> status, body |-> body, error |-> ""]
Err(e) == [ok |-> FALSE, status |-> 0, body |-> EmptyBody, error |-> e]

(* A call built from the composer as it is when the task runs.             *)
OutboundCall_Live(url, m, body, hdrs) ==
    [method |-> method, url |-> build_url_with_params(url_input, params),
     headers |-> get_headers(headers),
     body |-> IF body_input # <<>> /\ method \in {"Post", "Put", "Patch"}
              THEN Some(body_input) ELSE None]

(* A body attached whatever the method.                                     *)
HasBody_AnyMethod(m, body) == body # <<>>

(* execute_request: the call handed to the transport; the body is attached  *)
(* only to the methods that support it.                                     *)
HasBody(m, body) == body # <<>> /\ m \in {"Post", "Put", "Patch"}
OutboundCall(url, m, body, hdrs) ==
    [method |-> m, url |-> url, headers |-> hdrs,
     body |-> IF HasBody(m, body) THEN Some(body) ELSE None]

NoCall == [method |-> "Get", url |-> <<>>, headers |-> <<>>, body |-> None]

(* The background task of one dispatch: the snapshot it was spawned with,   *)
(* the call it made and the result it got.                                  *)
Task(id, url, m, body, hdrs) ==
    [id |-> id, url |-> url, method |-> m, body |-> body, headers |-> hdrs,
     pc |-> "spawned", call |-> NoCall, result |-> Err("")]

(* send_request: auto-save, snapshot, reset of the response, spawn.         *)
send_request(io) ==
    /\ ~panicked
    /\ spawned < MaxDispatches
    /\ LET o == SaveOutcome(selected_request, io)
           url == build_url_with_params(url_input, params)
           started == ~o.panicked /\ url # <<>>
       IN  /\ fs' = o.fs
           /\ saved_requests' = o.saved_requests
           /\ selected_request' = o.selected_request
           /\ panicked' = o.panicked
           /\ fs_changes' = fs_changes + (IF o.ok THEN 1 ELSE 0)
           /\ last' = Record("send_request", o.path, o.ok)
           /\ IF started
              THEN /\ is_loading' = TRUE
                   /\ response_status' = None
                   /\ response_body' = EmptyBody
                   /\ response_is_large' = FALSE
                   /\ response_time' = None
                   /\ spawned' = spawned + 1
                   /\ tasks' = tasks \cup
                         {Task(spawned + 1, url, method, body_input, get_headers(headers))}
              ELSE UNCHANGED <<responseVars, tasks, spawned>>
    /\ UNCHANGED <<composerVars, current_folder, renameVars, gitVars, readdir_rev, config>>

(* The task runs execute_request: it makes the call and gets the result.    *)
execute_request(t, result) ==
    /\ t \in tasks
    /\ t.pc = "spawned"
    /\ tasks' = (tasks \ {t}) \cup
          {[t EXCEPT !.pc = "responded",
                     !.call = OutboundCall(t.url, t.method, t.body, t.headers),
                     !.result = result]}
    /\ last' = Record("execute_request", Some(t.id), result.ok)
    /\ UNCHANGED <<composerVars, responseVars, storeVars, renameVars, gitVars, envVars,
                   spawned, panicked>>

(* A completion that is only delivered for a successful result.             *)
complete_request_OnlySuccess(t, elapsed) ==
    /\ ~panicked
    /\ t \in tasks
    /\ t.pc = "responded"
    /\ t.result.ok
    /\ is_loading' = FALSE
    /\ response_time' = Some(elapsed)
    /\ response_status' = Some(<<t.result.status, status_text(t.result.status)>>)
    /\ response_is_large' = is_large(t.result.body)
    /\ response_body' = StoredBody(t.result.body)
    /\ tasks' = tasks \ {t}
    /\ last' = Record("complete_request", Some(t.id), t.result.ok)
    /\ UNCHANGED <<composerVars, storeVars, renameVars, gitVars, envVars, spawned,
                   panicked>>

(* The completion of a dispatch, applied on the owning thread.              *)
complete_request(t, elapsed) ==
    /\ ~panicked
    /\ t \in tasks
    /\ t.pc = "responded"
    /\ is_loading' = FALSE
    /\ response_time' = Some(elapsed)
    /\ IF t.result.ok
       THEN /\ response_status' = Some(<<t.result.status, status_text(t.result.status)>>)
            /\ response_is_large' = is_large(t.result.body)
            /\ response_body' = StoredBody(t.result.body)
       ELSE /\ response_status' = Some(<<0, "Error">>)
            /\ response_body' = ErrorBody(t.result.error)
            /\ response_is_large' = FALSE
    /\ tasks' = tasks \ {t}
    /\ last' = Record("complete_request", Some(t.id), t.result.ok)
    /\ UNCHANGED <<composerVars, storeVars, renameVars, gitVars, envVars, spawned,
                   panicked>>

----------------------------------------------------------------------------
(* The repository a folder lies in (Repository::discover), if any, and its  *)
(* branch.                                                                  *)
Discover(d) ==
    IF d = "/ws" THEN Some("repo-ws")
    ELSE None
BranchOf(repo) == IF repo = "repo-ws" THEN "main" ELSE "HEAD"

(* init_git followed by refresh_git_status, for the folder given.           *)
init_git_service(folder, old) == IF IsSome(folder) THEN Discover(Unwrap(folder)) ELSE old
init_git_branch(folder, old) ==
    IF IsSome(folder) /\ IsSome(Discover(Unwrap(folder)))
    THEN Some(BranchOf(Unwrap(Discover(Unwrap(folder)))))
    ELSE old

(* git2::Status: the bits of one status entry, as the set of the flags set. *)
INDEX_NEW == <<"INDEX", "NEW">>
INDEX_MODIFIED == <<"INDEX", "MODIFIED">>
INDEX_DELETED == <<"INDEX", "DELETED">>
INDEX_RENAMED == <<"INDEX", "RENAMED">>
INDEX_TYPECHANGE == <<"INDEX", "TYPECHANGE">>
WT_NEW == <<"WT", "NEW">>
WT_MODIFIED == <<"WT", "MODIFIED">>
WT_DELETED == <<"WT", "DELETED">>
WT_RENAMED == <<"WT", "RENAMED">>
WT_TYPECHANGE == <<"WT", "TYPECHANGE">>
IGNORED == <<"", "IGNORED">>
CONFLICTED == <<"", "CONFLICTED">>
contains(status, flag) == flag \in status

(* A map_status that looks for Modified before New.                         *)
map_status_ModifiedFirst(status) ==
    IF contains(status, INDEX_MODIFIED) \/ contains(status, WT_MODIFIED) THEN "Modified"
    ELSE IF contains(status, INDEX_NEW) \/ contains(status, WT_NEW) THEN "New"
    ELSE IF contains(status, INDEX_DELETED) \/ contains(status, WT_DELETED) THEN "Deleted"
    ELSE IF contains(status, INDEX_RENAMED) \/ contains(status, WT_RENAMED) THEN "Renamed"
    ELSE IF contains(status, INDEX_TYPECHANGE) \/ contains(status, WT_TYPECHANGE)
    THEN "Typechange"
    ELSE "Unknown"

(* GitService::map_status.                                                  *)
map_status(status) ==
    IF contains(status, INDEX_NEW) \/ contains(status, WT_NEW) THEN "New"
    ELSE IF contains(status, INDEX_MODIFIED) \/ contains(status, WT_MODIFIED) THEN "Modified"
    ELSE IF contains(status, INDEX_DELETED) \/ contains(status, WT_DELETED) THEN "Deleted"
    ELSE IF contains(status, INDEX_RENAMED) \/ contains(status, WT_RENAMED) THEN "Renamed"
    ELSE IF contains(status, INDEX_TYPECHANGE) \/ contains(status, WT_TYPECHANGE)
    THEN "Typechange"
    ELSE "Unknown"

(* One entry of repo.statuses() and one row of the change list.             *)
StatusEntry(path, status) == [path |-> path, status |-> status]
GitFileChange(path, status, is_staged) ==
    [path |-> path, status |-> status, is_staged |-> is_staged]

(* GitService::get_status: the rows pushed for one entry, and for all.      *)
EntryChanges(entry) ==
    (IF \/ contains(entry.status, INDEX_NEW)
        \/ contains(entry.status, INDEX_MODIFIED)
        \/ contains(entry.status, INDEX_DELETED)
        \/ contains(entry.status, INDEX_RENAMED)
        \/ contains(entry.status, INDEX_TYPECHANGE)
     THEN <<GitFileChange(entry.path, map_status(entry.status), TRUE)>>
     ELSE <<>>)
    \o (IF \/ contains(entry.status, WT_NEW)
           \/ contains(entry.status, WT_MODIFIED)
           \/ contains(entry.status, WT_DELETED)
           \/ contains(entry.status, WT_RENAMED)
           \/ contains(entry.status, WT_TYPECHANGE)
        THEN <<GitFileChange(entry.path, map_status(entry.status), FALSE)>>
        ELSE <<>>)
get_status(statuses) == Concat([i \in 1..Len(statuses) |-> EntryChanges(statuses[i])])

(* refresh_git_status: with a service, the branch and the change list are   *)
(* read again from the repository.                                          *)
refresh_git_status ==
    /\ ~panicked
    /\ IF IsSome(git_service)
       THEN /\ current_branch' = Some(BranchOf(Unwrap(git_service)))
            /\ git_changes' = get_status(repo_statuses)
       ELSE UNCHANGED <<current_branch, git_changes>>
    /\ last' = Record("refresh_git_status", None, IsSome(git_service))
    /\ UNCHANGED <<composerVars, responseVars, storeVars, renameVars, git_service,
                   repo_statuses, envVars, tasks, spawned, panicked>>

(* The working tree changes under the application: the status entries of    *)
(* the repository become the ones given.                                    *)
repository_changes(statuses) ==
    /\ repo_statuses' = statuses
    /\ last' = Record("repository_changes", None, TRUE)
    /\ UNCHANGED <<composerVars, responseVars, storeVars, renameVars, git_service,
                   current_branch, git_changes, envVars, tasks, spawned, panicked>>

(* The composer holding the given values.                                   *)
Composed(u, n, b, ps, hs, m) ==
    /\ url_input = u
    /\ name_input = n
    /\ body_input = b
    /\ params = ps
    /\ headers = hs
    /\ method = m

(* App::new: everything but the composer, for a filesystem fs0, a directory *)
(* order rev and a persisted last_opened_folder cfg.                        *)
ConstructedOver(fs0, rev, cfg, statuses) ==
    /\ response_body = EmptyBody
    /\ response_is_large = FALSE
    /\ is_loading = FALSE
    /\ response_status = None
    /\ response_time = None
    /\ current_folder = cfg
    /\ saved_requests = load_folder(fs0, rev, cfg)
    /\ selected_request = None
    /\ rename_input = <<>>
    /\ renaming_index = None
    /\ git_service = init_git_service(cfg, None)
    /\ current_branch = init_git_branch(cfg, None)
    /\ git_changes = IF IsSome(init_git_service(cfg, None)) THEN get_status(statuses) ELSE <<>>
    /\ repo_statuses = statuses
    /\ fs = fs0
    /\ readdir_rev = rev
    /\ fs_changes = 0
    /\ config = cfg
    /\ tasks = {}
    /\ spawned = 0
    /\ panicked = FALSE
    /\ last = InitLast

(* The same over a clean working tree.                                      *)
Constructed(fs0, rev, cfg) == ConstructedOver(fs0, rev, cfg, <<>>)

InitialParams == <<create_kv_pair(<<>>, <<>>)>>
InitialHeaders ==
    <<create_kv_pair(ContentType, ApplicationJson), create_kv_pair(<<>>, <<>>)>>

(* App::new: the state after construction.                                  *)
AppNew(fs0, rev, cfg) ==
    /\ Composed(DefaultUrl, DefaultName, <<>>, InitialParams, InitialHeaders, "Get")
    /\ Constructed(fs0, rev, cfg)

----------------------------------------------------------------------------
(* Files and inputs the workspace is explored with.                         *)
Str_foo == <<"f", "o", "o">>
Str_a_b == <<"a", " ", "b">>
Str_a_dash_b == <<"a", "-", "b">>
Str_b == <<"b">>
Str_NewRequest2 == NewRequestPrefix \o <<"2">>
Url_xy == <<"h", "t", "t", "p", ":", "/", "/", "x", "/", "y">>
Url_xy_q == <<"h", "t", "t", "p", ":", "/", "/", "x", "/", "y", "?", "q", "=", "1">>
Body_json == <<"{", "}">>
DefaultHeaderMap == [k \in {ContentType} |-> ApplicationJson]

(* "/ws" as the application itself would have left it: two saved requests.  *)
File_a_b_json ==
    RegularFile(Str_a_dash_b \o DotJson,
                SavedRequest(Str_a_b, <<"p", "a", "t", "c", "h">>, DefaultUrl,
                             DefaultHeaderMap, <<>>))
File_NewRequest2_json ==
    RegularFile(safe_name(Str_NewRequest2) \o DotJson,
                SavedRequest(Str_NewRequest2, <<"P", "O", "S", "T">>, DefaultUrl,
                             DefaultHeaderMap, <<>>))

(* "/alt": two files of one stem (one of them not a saved request), a file  *)
(* of another extension, a directory named like a request file and a        *)
(* hidden file that has no extension.                                       *)
File_foo_json == RegularFile(Str_foo \o DotJson, Garbage)
File_foo_yaml ==
    RegularFile(Str_foo \o <<".">> \o ExtYaml,
                SavedRequest(Str_a_b, <<"F", "O", "O">>, DefaultUrl, DefaultHeaderMap, <<>>))
File_notes_txt == RegularFile(<<"n", ".", "t", "x", "t">>, Garbage)
Dir_d_json == SubDirectory(<<"d">> \o DotJson)
File_hidden_json == RegularFile(DotJson, Garbage)

AltFolder == {File_foo_json, File_foo_yaml, File_notes_txt, Dir_d_json, File_hidden_json}
FsWith(w) ==
    [d \in Folders |-> CASE d = "/ws" -> w [] d = "/alt" -> AltFolder [] OTHER -> {}]
StoreWorkspaces == { {}, {File_a_b_json, File_NewRequest2_json} }
StoreFolders == {None, Some("/ws"), Some("/gone")}
StoreNames == {<<>>, Str_a_b}
RenameNames == {<<>>, Str_b}

(* The answers the operating system may give to a call that changes the     *)
(* filesystem: it may always refuse, and it refuses once MaxFsChanges       *)
(* changes have been made.                                                  *)
IoAnswers == IF fs_changes < MaxFsChanges THEN BOOLEAN ELSE {FALSE}

(* The workspace store under every order of open, save, save-as-new, load   *)
(* and delete.                                                              *)
Init ==
    \E w \in StoreWorkspaces, rev \in BOOLEAN, cfg \in StoreFolders :
        AppNew(FsWith(w), rev, cfg)

Next ==
    \/ \E path \in {"/ws", "/alt"} : open_folder(path)
    \/ \E io \in IoAnswers : save_request(io)
    \/ \E io \in IoAnswers : save_new_request(io)
    \/ \E index \in 0..Len(saved_requests) : load_request(index)
    \/ \E index \in 0..Len(saved_requests), io \in IoAnswers : delete_request(index, io)
    \/ \E n \in StoreNames : set_name(n)

Spec == Init /\ [][Next]_vars

----------------------------------------------------------------------------
(* Properties of the workspace store, under Spec.                           *)

(* C1.  Delete index-shift law: a delete_request(index) whose file removal  *)
(* succeeds removes exactly the entry at index from saved_requests, the     *)
(* others keeping their order, and leaves selected_request none if it was   *)
(* index, one less if it was greater than index, and unchanged if it was    *)
(* less than index or none.                                                 *)
C1_DeleteIndexShift ==
    [][(last'.op = "delete_request" /\ last'.ok) =>
         LET index == Unwrap(last'.arg)
             n == Len(saved_requests)
         IN  /\ index < n
             /\ Len(saved_requests') = n - 1
             /\ \A i \in 1..(n - 1) :
                   saved_requests'[i] = saved_requests[IF i <= index THEN i ELSE i + 1]
             /\ selected_request' =
                   (CASE selected_request = None -> None
                      [] selected_request # None /\ Unwrap(selected_request) = index -> None
                      [] selected_request # None /\ Unwrap(selected_request) > index ->
                            Some(Unwrap(selected_request) - 1)
                      [] OTHER -> selected_request)]_vars

(* The first of two entries was deleted while the second was selected: the  *)
(* selection has moved down with it.                                        *)
C1_Witness ==
    /\ last.op = "delete_request" /\ last.ok /\ last.arg = Some(0)
    /\ selected_request = Some(0)
    /\ Len(saved_requests) = 1

(* The direct children of folder d that a scan lists: regular files whose   *)
(* extension is json, yaml or yml.                                          *)
C3_Eligible(d) ==
    IF FolderExists(d)
    THEN {e \in fs[d] : /\ e.kind = "file"
                        /\ \E x \in {ExtJson, ExtYaml, ExtYml} :
                              /\ ends_with(e.name, <<".">> \o x)
                              /\ Len(e.name) > Len(x) + 1}
    ELSE {}

(* The states right after a scan of the current folder.                     *)
C3_Scanned ==
    /\ last.ok
    /\ last.op \in {"new", "open_folder"} \cup SaveOps
    /\ IsSome(current_folder)

C10_SavedUnnamed ==
    /\ last'.ok
    /\ name_input = <<>>
    /\ \/ last'.op = "save_new_request"
       \/ last'.op = "save_request" /\ selected_request = None

(* What such a save did with the file of name f: it wrote the request       *)
(* named "New Request " + (count + 1) to it, and selected its entry.        *)
C10_Wrote(f) ==
    LET path == PathJoin(Unwrap(current_folder), f)
    IN  /\ last'.arg = Some(path)
        /\ is_file(fs', path)
        /\ EntryAt(fs', path).content.name =
              NewRequestPrefix \o Decimal(Len(saved_requests) + 1)
        /\ IsSome(selected_request')
        /\ Unwrap(selected_request') < Len(saved_requests')
        /\ saved_requests'[Unwrap(selected_request') + 1].path = path

Str_NewRequest1_json ==
    <<"N", "e", "w", " ", "R", "e", "q", "u", "e", "s", "t", " ", "1", ".", "j", "s", "o", "n">>
Str_NewDashRequest1_json ==
    <<"N", "e", "w", "-", "R", "e", "q", "u", "e", "s", "t", "-", "1", ".", "j", "s", "o", "n">>
Str_NewDashRequestDash ==
    <<"N", "e", "w", "-", "R", "e", "q", "u", "e", "s", "t", "-">>

(* C10 as stated: saving with no selection and an empty name writes the     *)
(* file "New Request " + (count + 1) + ".json"; with current_folder /ws and *)
(* no entries, /ws/New Request 1.json, and selects it.                      *)
C10_FileNamedByDefaultName ==
    [][C10_SavedUnnamed =>
         /\ C10_Wrote(NewRequestPrefix \o Decimal(Len(saved_requests) + 1) \o DotJson)
         /\ (current_folder = Some("/ws") /\ saved_requests = <<>> =>
                last'.arg = Some(PathJoin("/ws", Str_NewRequest1_json)))]_vars

(* C10, amended.  The default name "New Request " + (count + 1) is the name *)
(* of the request; the file name is that name with every character that is *)
(* not alphanumeric replaced by '-': with current_folder /ws and no         *)
(* entries, the save writes /ws/New-Request-1.json and selects it.          *)
C10_FileNamedBySanitisedDefaultName ==
    [][C10_SavedUnnamed =>
         /\ C10_Wrote(Str_NewDashRequestDash \o Decimal(Len(saved_requests) + 1) \o DotJson)
         /\ (current_folder = Some("/ws") /\ saved_requests = <<>> =>
                last'.arg = Some(PathJoin("/ws", Str_NewDashRequest1_json)))]_vars

(* The unnamed request was saved into the empty /ws.                        *)
C10_Witness ==
    /\ last.op \in {"save_request", "save_new_request"} /\ last.ok
    /\ last.arg = Some(PathJoin("/ws", Str_NewDashRequest1_json))
    /\ name_input = <<>>
    /\ selected_request = Some(0)
    /\ Len(saved_requests) = 1
    /\ EntryAt(fs, Unwrap(last.arg)).content.name = NewRequestPrefix \o <<"1">>

----------------------------------------------------------------------------
(* Save and load of every composed request: the composer is drawn from the  *)
(* five methods, two URLs, the empty and a non-empty body, and every list   *)
(* of 1..MaxRows header rows over two keys (and the empty key) and two      *)
(* values, so that lists with a repeated key occur; "/ws" starts empty.     *)
RoundTripUrls == {Url_xy, Url_xy_q}
RoundTripBodies == {<<>>, Body_json}
RoundTripRows ==
    {create_kv_pair(k, v) : k \in {<<>>, <<"A">>, <<"B">>}, v \in {<<"1">>, <<"2">>}}
RoundTripHeaders == UNION {[1..n -> RoundTripRows] : n \in 1..MaxRows}

InitRoundTrip ==
    \E m \in HttpMethod, u \in RoundTripUrls, b \in RoundTripBodies,
       hs \in RoundTripHeaders :
        /\ Composed(u, Str_a_b, b, InitialParams, hs, m)
        /\ Constructed(FsWith({}), FALSE, Some("/ws"))

NextRoundTrip ==
    \/ \E io \in IoAnswers : save_request(io)
    \/ \E io \in IoAnswers : save_new_request(io)
    \/ \E index \in 0..Len(saved_requests) : load_request(index)

SpecRoundTrip == InitRoundTrip /\ [][NextRoundTrip]_vars

(* The key/value pairs of the rows that have a key.                         *)
C2_Pairs(rows) ==
    {<<rows[i].key, rows[i].value>> : i \in {j \in 1..Len(rows) : rows[j].key # <<>>}}

(* Of the rows that have a key, the last row of each key.                   *)
C2_LastWritePairs(rows) ==
    {<<rows[i].key, rows[i].value>> :
        i \in {j \in 1..Len(rows) :
                 /\ rows[j].key # <<>>
                 /\ \A k \in (j + 1)..Len(rows) : rows[k].key # rows[j].key}}

(* The rows but the trailing one.                                           *)
C2_Front(rows) == SubSeq(rows, 1, Len(rows) - 1)

(* A step that loads the entry the step before it saved: the unprimed       *)
(* composer is the request that was saved, the primed one the request the   *)
(* load yields.                                                             *)
C2_LoadedWhatWasSaved ==
    /\ last'.op = "load_request" /\ last'.ok
    /\ last'.prev \in SaveOps

C2_SameMethodUrlBody ==
    /\ method' = method
    /\ url_input' = url_input
    /\ body_input' = body_input

(* C2 as stated: saving a request and loading the resulting entry yields    *)
(* the same method, URL and body and the same set of header key/value pairs *)
(* (unordered, without the trailing empty row), also for rows with          *)
(* duplicate keys.                                                          *)
C2_RoundTripKeepsAllPairs ==
    [][C2_LoadedWhatWasSaved =>
         /\ C2_SameMethodUrlBody
         /\ C2_Pairs(C2_Front(headers')) = C2_Pairs(headers)]_vars

(* C2, amended.  Saving a request and loading the resulting entry yields    *)
(* the same method, URL and body, and header rows that hold, besides the    *)
(* trailing empty row, one row per key of the saved rows, with the value of *)
(* the last saved row of that key.                                          *)
C2_RoundTripLastWriteWins ==
    [][C2_LoadedWhatWasSaved =>
         /\ C2_SameMethodUrlBody
         /\ headers'[Len(headers')] = create_kv_pair(<<>>, <<>>)
         /\ C2_Pairs(C2_Front(headers')) = C2_LastWritePairs(headers)
         /\ Len(headers') = Cardinality(C2_LastWritePairs(headers)) + 1]_vars

(* A PATCH with a body and two headers was saved and loaded again.          *)
C2_Witness ==
    /\ last.op = "load_request" /\ last.ok
    /\ last.prev \in SaveOps
    /\ method = "Patch"
    /\ body_input = Body_json
    /\ url_input = Url_xy_q
    /\ C2_Pairs(headers) = {<<<<"A">>, <<"2">>>>, <<<<"B">>, <<"1">>>>}
    /\ Len(headers) = 3

----------------------------------------------------------------------------
(* Dispatch of every composed request: the composer is drawn from the five  *)
(* methods and the empty and a non-empty body; no folder is open, so the    *)
(* save that send_request starts with does nothing.                         *)
ElapsedMillis == {0, 250}
Body_hello == Body("hello", 5, FALSE, 0)
Err_send == Err("error sending request")
Err_body == Err("error decoding response body")
DispatchResults == {Ok(200, Body_hello), Err_send}

InitDispatch ==
    \E m \in HttpMethod, b \in RoundTripBodies :
        /\ Composed(Url_xy, DefaultName, b, InitialParams, InitialHeaders, m)
        /\ Constructed(FsWith({}), FALSE, None)

NextDispatch ==
    \/ send_request(FALSE)
    \/ \E t \in tasks, r \in DispatchResults : execute_request(t, r)
    \/ \E t \in tasks, e \in ElapsedMillis : complete_request(t, e)

SpecDispatch == InitDispatch /\ [][NextDispatch]_vars

(* C5.  The call of every dispatched request carries a body if and only if  *)
(* the method is POST, PUT or PATCH and the body is not empty, and then it  *)
(* is the request's body; a GET or DELETE with a body is sent without it,   *)
(* as the same call otherwise.                                              *)
C5_BodyOnlyForPostPutPatch ==
    \A t \in tasks :
        t.pc = "responded" =>
            /\ t.method = method /\ t.body = body_input
            /\ t.call.method = t.method
            /\ t.call.url = t.url
            /\ IsSome(t.call.body) <=>
                  (t.method \in {"Post", "Put", "Patch"} /\ t.body # <<>>)
            /\ IsSome(t.call.body) => t.call.body = Some(t.body)

(* A GET with a non-empty body went out without a body and was answered.    *)
C5_Witness ==
    \E t \in tasks :
        /\ t.pc = "responded"
        /\ t.method = "Get" /\ t.body = Body_json
        /\ t.call.body = None
        /\ t.result.ok

----------------------------------------------------------------------------
(* The effective URL and headers of every list of rows: the rows are drawn  *)
(* from every list of 1..MaxRows rows with the empty key or the key a, the  *)
(* value 1 or & and either value of enabled, put in place of the parameter  *)
(* rows or of the header rows.  (KeyValuePair has the enabled flag, though  *)
(* no handler clears it.)                                                   *)
EditorRows ==
    {[key |-> k, value |-> v, enabled |-> e] :
        k \in {<<>>, <<"a">>}, v \in {<<"1">>, <<"&">>}, e \in BOOLEAN}
EditorRowLists == UNION {[1..n -> EditorRows] : n \in 1..MaxRows}

InitRows ==
    \E rows \in EditorRowLists, u \in RoundTripUrls, which \in BOOLEAN :
        /\ Composed(u, DefaultName, <<>>,
                    IF which THEN rows ELSE InitialParams,
                    IF which THEN InitialHeaders ELSE rows, "Get")
        /\ Constructed(FsWith({}), FALSE, None)

NextRows ==
    \/ send_request(FALSE)
    \/ \E t \in tasks : execute_request(t, Ok(200, Body_hello))

SpecRows == InitRows /\ [][NextRows]_vars

(* The positions of the rows that are enabled and have a key, and the k-th  *)
(* of them.                                                                 *)
C6_Kept(rows) == {i \in 1..Len(rows) : rows[i].enabled /\ rows[i].key # <<>>}
C6_Nth(rows, k) ==
    CHOOSE i \in C6_Kept(rows) : Cardinality({j \in C6_Kept(rows) : j <= i}) = k

(* The query string of the kept rows first..Cardinality(C6_Kept(rows)):     *)
(* key=value, percent-encoded, joined by &.                                 *)
RECURSIVE C6_Query(_, _)
C6_Query(rows, first) ==
    LET r == rows[C6_Nth(rows, first)]
        kv == urlencoding(r.key) \o <<"=">> \o urlencoding(r.value)
    IN  IF first = Cardinality(C6_Kept(rows)) THEN kv
        ELSE kv \o <<"&">> \o C6_Query(rows, first + 1)

(* C6.  A row with an empty key or with enabled = false never contributes:  *)
(* the effective headers are the enabled rows that have a key, in order,    *)
(* duplicates kept; the effective URL is the base URL, followed, when there *)
(* is such a parameter, by ? (or & when the base URL contains ?) and those  *)
(* parameters as key=value joined by &; http://x/y with the parameters      *)
(* (a,1), ("",1) gives http://x/y?a=1.                                      *)
C6_EffectiveRequest ==
    \A t \in tasks :
        /\ Len(t.headers) = Cardinality(C6_Kept(headers))
        /\ \A k \in 1..Len(t.headers) :
              t.headers[k] = <<headers[C6_Nth(headers, k)].key,
                               headers[C6_Nth(headers, k)].value>>
        /\ t.url = IF C6_Kept(params) = {} THEN url_input
                   ELSE url_input
                        \o (IF \E i \in 1..Len(url_input) : url_input[i] = "?"
                            THEN <<"&">> ELSE <<"?">>)
                        \o C6_Query(params, 1)
        /\ (/\ url_input = Url_xy
            /\ params = <<[key |-> <<"a">>, value |-> <<"1">>, enabled |-> TRUE],
                          [key |-> <<>>, value |-> <<"1">>, enabled |-> TRUE]>>
            => t.url = Url_xy \o <<"?", "a", "=", "1">>)
        /\ t.pc = "responded" => t.call.url = t.url /\ t.call.headers = t.headers

(* http://x/y was dispatched with the parameters (a,1), ("",1).             *)
C6_Witness ==
    /\ url_input = Url_xy
    /\ params = <<[key |-> <<"a">>, value |-> <<"1">>, enabled |-> TRUE],
                  [key |-> <<>>, value |-> <<"1">>, enabled |-> TRUE]>>
    /\ \E t \in tasks : t.pc = "responded" /\ t.call.url = Url_xy \o <<"?", "a", "=", "1">>

(* A disabled row with a key and an enabled row of the same key and another *)
(* value were dispatched as headers: one header went out.                   *)
C6_WitnessDisabled ==
    /\ headers = <<[key |-> <<"a">>, value |-> <<"1">>, enabled |-> FALSE],
                   [key |-> <<"a">>, value |-> <<"&">>, enabled |-> TRUE]>>
    /\ \E t \in tasks : t.pc = "responded" /\ t.call.headers = << <<<<"a">>, <<"&">>>> >>

----------------------------------------------------------------------------
(* The completion of a dispatch under every result: the status codes around *)
(* the borders of the classes, up to the largest three-digit code, with one *)
(* body; bodies below, at and above the display limit, JSON or not, with    *)
(* one status; and the two failures of execute_request.                     *)
StatusCodes == {100, 199, 200, 299, 300, 399, 400, 499, 500, 599, 600, 999}
Body_json_small == Body("{\"a\":1}", 7, TRUE, 12)
Body_text_at_limit == Body("text of 100000 bytes", 100000, FALSE, 0)
Body_json_at_limit == Body("json of 100000 bytes", 100000, TRUE, 100004)
Body_text_over_limit == Body("text of 100001 bytes", 100001, FALSE, 0)
Body_json_over_limit == Body("json of 100001 bytes", 100001, TRUE, 100005)
ResponseBodies ==
    {EmptyBody, Body_hello, Body_json_small, Body_text_at_limit, Body_json_at_limit,
     Body_text_over_limit, Body_json_over_limit}
ResponseResults ==
    {Ok(status, Body_hello) : status \in StatusCodes}
        \cup {Ok(200, body) : body \in ResponseBodies}
        \cup {Err_send, Err_body}

InitResponse == AppNew(FsWith({}), FALSE, None)

NextResponse ==
    \/ send_request(FALSE)
    \/ \E t \in tasks, r \in ResponseResults : execute_request(t, r)
    \/ \E t \in tasks, e \in ElapsedMillis : complete_request(t, e)

SpecResponse == InitResponse /\ [][NextResponse]_vars

(* The dispatch a complete_request step completes.                          *)
Completed == CHOOSE t \in tasks : t \notin tasks'

(* C7 as stated: the label of the status code of a completed call is "OK"   *)
(* for [200,300), "Client Error" for [400,500), "Server Error" for          *)
(* [500,600) and "Response" for every other code, those of 600 and above    *)
(* included.                                                                *)
C7_StatusLabel ==
    (last.op = "complete_request" /\ last.ok) =>
        LET code == Unwrap(response_status)[1]
            label == Unwrap(response_status)[2]
        IN  label = (CASE code >= 200 /\ code < 300 -> "OK"
                       [] code >= 400 /\ code < 500 -> "Client Error"
                       [] code >= 500 /\ code < 600 -> "Server Error"
                       [] OTHER -> "Response")

(* A call answered with status 600 has completed.                           *)
C7_Witness ==
    /\ last.op = "complete_request" /\ last.ok
    /\ response_status = Some(<<600, "Server Error">>)

(* C8.  Oversize guard: after a successful response, response_is_large is   *)
(* true exactly when the body received is longer than 100,000 bytes         *)
(* (100,001 sets it, 100,000 does not), and a body that is too long is      *)
(* stored as received.                                                      *)
C8_OversizeGuard ==
    [][(last'.op = "complete_request" /\ last'.ok) =>
         LET received == Completed.result.body
         IN  /\ response_is_large' <=> received.len > 100000
             /\ received.len = 100001 => response_is_large'
             /\ received.len = 100000 => ~response_is_large'
             /\ response_is_large' => response_body' = received]_vars

(* A JSON body of 100,001 bytes was received and stored as it came.         *)
C8_Witness ==
    /\ last.op = "complete_request" /\ last.ok
    /\ response_is_large
    /\ response_body = Body_json_over_limit

(* C9.  A dispatch that failed, while sending or while reading the body,    *)
(* completes with status 0, label "Error", the body "Error: " followed by   *)
(* the failure message and response_is_large false; nothing panics and the  *)
(* next request can be sent.                                                *)
C9_FailureRecord ==
    [][(last'.op = "complete_request" /\ ~last'.ok) =>
         /\ response_status' = Some(<<0, "Error">>)
         /\ response_body'.text = "Error: " \o Completed.result.error
         /\ ~response_is_large'
         /\ ~is_loading'
         /\ ~panicked'
         /\ (spawned < MaxDispatches => ENABLED send_request(FALSE))']_vars

(* The reading of a response body failed, and the failure is shown.         *)
C9_Witness ==
    /\ last.op = "complete_request" /\ ~last.ok
    /\ response_status = Some(<<0, "Error">>)
    /\ response_body.text = "Error: error decoding response body"
    /\ tasks = {}

----------------------------------------------------------------------------
(* Further properties of the workspace store, under Spec.                   *)

(* A step of the plain save or of save-as-new, and the selection it ran     *)
(* with.                                                                    *)
SaveStep == last'.op \in {"save_request", "save_new_request"}
SaveStepSelection == IF last'.op = "save_request" THEN selected_request ELSE None

(* The name with every character that is not a letter or a digit replaced   *)
(* by '-'.                                                                  *)
C11_Dashed(name) ==
    [i \in 1..Len(name) |->
        IF \/ Code(name[i]) \in 48..57
           \/ Code(name[i]) \in 65..90
           \/ Code(name[i]) \in 97..122
        THEN name[i] ELSE "-"]

(* C11.  Save target resolution: a save run with a selected index writes to *)
(* the path of that entry; a save run without one writes to the file of     *)
(* current_folder named by the request name, every non-alphanumeric         *)
(* character replaced by '-', plus ".json".  The file is a direct child of  *)
(* current_folder, and no other file is touched.                            *)
C11_SaveTarget ==
    [][(SaveStep /\ IsSome(current_folder) /\ ~panicked') =>
         LET sel == SaveStepSelection
             name == IF name_input = <<>>
                     THEN NewRequestPrefix \o Decimal(Len(saved_requests) + 1)
                     ELSE name_input
             target == IF IsSome(sel)
                       THEN saved_requests[Unwrap(sel) + 1].path
                       ELSE PathJoin(Unwrap(current_folder), C11_Dashed(name) \o DotJson)
         IN  /\ last'.arg = Some(target)
             /\ target.dir = Unwrap(current_folder)
             /\ last'.ok => /\ is_file(fs', target)
                            /\ EntryAt(fs', target).content.name = name
                            /\ \A d \in Folders : \A e \in fs'[d] :
                                  e \in fs[d] \/ (d = target.dir /\ e.name = target.file)
             /\ ~last'.ok => fs' = fs]_vars

(* The selected entry a-b.json was saved over while the name input was      *)
(* empty: the file keeps its path and now holds the default name.           *)
C11_Witness ==
    /\ last.op = "save_request" /\ last.ok
    /\ last.arg = Some(PathJoin("/ws", Str_a_dash_b \o DotJson))
    /\ name_input = <<>>
    /\ EntryAt(fs, Unwrap(last.arg)).content.name = NewRequestPrefix \o <<"3">>
    /\ Cardinality(fs["/ws"]) = 2

(* C12 as stated: after every save with current_folder set, selected is    *)
(* the index of the entry whose path is the path just written when that     *)
(* path is present after the rescan, and none when it is not (for example   *)
(* because the write failed).                                               *)
C12_SelectedFollowsRescan ==
    [][(SaveStep /\ IsSome(current_folder) /\ ~panicked') =>
         LET target == Unwrap(last'.arg)
             rescan == load_folder(fs', readdir_rev, current_folder)
         IN  IF \E i \in 1..Len(rescan) : rescan[i].path = target
             THEN /\ IsSome(selected_request')
                  /\ Unwrap(selected_request') < Len(saved_requests')
                  /\ saved_requests'[Unwrap(selected_request') + 1].path = target
             ELSE selected_request' = None]_vars

(* A save without selection was refused by the filesystem while the file    *)
(* of its name is in the folder and in the list: nothing is selected.       *)
C12_Witness ==
    /\ last.op \in {"save_request", "save_new_request"} /\ ~last.ok
    /\ IsSome(current_folder) /\ FolderWritable(Unwrap(current_folder))
    /\ selected_request = None
    /\ is_file(fs, Unwrap(last.arg))
    /\ \E i \in 1..Len(saved_requests) : saved_requests[i].path = Unwrap(last.arg)

(* C13.  With current_folder unset, the plain save and save-as-new do       *)
(* nothing: the entries, the selection, the filesystem and the composer are *)
(* as before, and nothing panics.                                           *)
C13_SaveWithoutFolderIsNoOp ==
    [][(SaveStep /\ current_folder = None) =>
         /\ saved_requests' = saved_requests
         /\ selected_request' = selected_request
         /\ fs' = fs
         /\ composerVars' = composerVars
         /\ current_folder' = None
         /\ ~panicked']_vars

(* Save-as-new has run with no folder open, while the filesystem would have *)
(* taken a write.                                                           *)
C13_Witness ==
    /\ last.op = "save_new_request" /\ ~last.ok /\ last.arg = None
    /\ current_folder = None
    /\ fs_changes < MaxFsChanges
    /\ saved_requests = <<>>
    /\ name_input = Str_a_b

(* C17.  A delete that fails (the removal is refused or the file is not    *)
(* there, no folder is open, the index is out of range) leaves the entries  *)
(* and the selection as they were, touches no file and does not panic.      *)
C17_FailedDeleteChangesNothing ==
    [][(last'.op = "delete_request" /\ ~last'.ok) =>
         /\ saved_requests' = saved_requests
         /\ selected_request' = selected_request
         /\ fs' = fs
         /\ ~panicked']_vars

(* The removal of a listed entry's file has failed in a writable folder     *)
(* while an entry was selected.                                             *)
C17_Witness ==
    /\ last.op = "delete_request" /\ ~last.ok
    /\ IsSome(current_folder) /\ FolderWritable(Unwrap(current_folder))
    /\ IsSome(last.arg) /\ Unwrap(last.arg) < Len(saved_requests)
    /\ IsSome(selected_request)

----------------------------------------------------------------------------
(* Loading: a folder of request files that differ in every field, one file  *)
(* that is not a request, and a .yaml file sharing its stem with a .json    *)
(* file, so that deleting the .yaml entry removes the file of the .json     *)
(* entry and leaves that entry listed without a file.                       *)
Header_X == <<"X">>
Value_1 == <<"1">>
TwoHeaderMap ==
    [k \in {ContentType, Header_X} |-> IF k = Header_X THEN Value_1 ELSE ApplicationJson]
File_b_json ==
    RegularFile(Str_b \o DotJson,
                SavedRequest(Str_b, <<"P", "u", "t">>, Url_xy, TwoHeaderMap, Body_json))
LoadWorkspace == {File_a_b_json, File_b_json, File_foo_json, File_foo_yaml}
LoadBodies == {<<>>, Str_foo}

InitLoad ==
    \E rev \in BOOLEAN, b \in LoadBodies :
        /\ Composed(DefaultUrl, DefaultName, b, InitialParams, InitialHeaders, "Get")
        /\ Constructed(FsWith(LoadWorkspace), rev, Some("/ws"))

NextLoad ==
    \/ \E i \in 0..Len(saved_requests) : load_request(i)
    \/ \E i \in 0..Len(saved_requests) : \E io \in IoAnswers : delete_request(i, io)
    \/ \E b \in LoadBodies : set_body(b)
    \/ cycle_method

SpecLoad == InitLoad /\ [][NextLoad]_vars

(* C14.  A load that fails (index out of range, file missing, file not a    *)
(* saved request) changes nothing: the name, method, URL, body, headers and *)
(* parameters of the composer, the entries and the selection stay as they   *)
(* were.                                                                    *)
C14_FailedLoadChangesNothing ==
    [][(last'.op = "load_request" /\ ~last'.ok) =>
         /\ name_input' = name_input
         /\ method' = method
         /\ url_input' = url_input
         /\ body_input' = body_input
         /\ headers' = headers
         /\ params' = params
         /\ saved_requests' = saved_requests
         /\ selected_request' = selected_request
         /\ fs' = fs]_vars

(* A load of a listed entry whose file is gone has failed while another     *)
(* entry was selected and loaded into the composer.                         *)
C14_Witness ==
    /\ last.op = "load_request" /\ ~last.ok
    /\ Unwrap(last.arg) < Len(saved_requests)
    /\ ~is_file(fs, saved_requests[Unwrap(last.arg) + 1].path)
    /\ IsSome(selected_request) /\ selected_request # last.arg
    /\ name_input = Str_b

(* A load of a listed file that is not a saved request has failed.          *)
C14_WitnessUnparseable ==
    /\ last.op = "load_request" /\ ~last.ok
    /\ Unwrap(last.arg) < Len(saved_requests)
    /\ is_file(fs, saved_requests[Unwrap(last.arg) + 1].path)
    /\ IsSome(selected_request)

(* The file a successful load has read, and the method its method string   *)
(* stands for when compared without regard to case.                         *)
C15_File == EntryAt(fs, saved_requests[Unwrap(last'.arg) + 1].path).content
C15_Decoded(m) ==
    LET up == [i \in 1..Len(m) |->
                 IF Code(m[i]) \in 97..122 THEN CharOf(Code(m[i]) - 32) ELSE m[i]]
    IN  CASE up = <<"P", "O", "S", "T">> -> "Post"
          [] up = <<"P", "U", "T">> -> "Put"
          [] up = <<"D", "E", "L", "E", "T", "E">> -> "Delete"
          [] up = <<"P", "A", "T", "C", "H">> -> "Patch"
          [] OTHER -> "Get"
C15_RowsOf(m, rows) ==
    /\ Len(rows) = Cardinality(DOMAIN m) + 1
    /\ rows[Len(rows)].key = <<>> /\ rows[Len(rows)].value = <<>>
    /\ \A k \in DOMAIN m :
          \E i \in 1..(Len(rows) - 1) : rows[i].key = k /\ rows[i].value = m[k]

(* C15.  After every successful load, whatever the composer held before:    *)
(* the method is the file's method decoded without regard to case           *)
(* (unrecognised strings give GET), the URL is the file's, the body is the  *)
(* file's body (an empty one included), the header rows are the file's      *)
(* pairs followed by one empty row, and the selection is the index loaded.  *)
C15_LoadReplacesComposer ==
    [][(last'.op = "load_request" /\ last'.ok) =>
         /\ method' = C15_Decoded(C15_File.method)
         /\ url_input' = C15_File.url
         /\ body_input' = C15_File.body
         /\ C15_RowsOf(C15_File.headers, headers')
         /\ selected_request' = last'.arg]_vars

(* The same with the body left out: what the code does establish.           *)
C15_LoadReplacesAllButBody ==
    [][(last'.op = "load_request" /\ last'.ok) =>
         /\ method' = C15_Decoded(C15_File.method)
         /\ url_input' = C15_File.url
         /\ (C15_File.body # <<>> => body_input' = C15_File.body)
         /\ C15_RowsOf(C15_File.headers, headers')
         /\ selected_request' = last'.arg]_vars

(* A file with an empty body has been loaded and the composer still holds   *)
(* the body typed before.                                                   *)
C15_Witness ==
    /\ last.op = "load_request" /\ last.ok
    /\ EntryAt(fs, saved_requests[Unwrap(last.arg) + 1].path).content.body = <<>>
    /\ body_input = Str_foo
    /\ method = "Patch"

----------------------------------------------------------------------------
(* Renaming: the rename dialog over a folder of two saved requests, with    *)
(* loads and deletes in between.                                            *)
RenameFolders == {None, Some("/ws"), Some("/alt")}

InitRename ==
    \E rev \in BOOLEAN, cfg \in RenameFolders :
        AppNew(FsWith({File_a_b_json, File_NewRequest2_json}), rev, cfg)

NextRename ==
    \/ \E i \in 0..Len(saved_requests) : start_renaming(i)
    \/ \E n \in RenameNames : set_rename_input(n)
    \/ cancel_renaming
    \/ \E io \in IoAnswers : confirm_renaming(io)
    \/ \E i \in 0..Len(saved_requests) : load_request(i)
    \/ \E i \in 0..Len(saved_requests) : \E io \in IoAnswers : delete_request(i, io)

SpecRename == InitRename /\ [][NextRename]_vars

(* C16.  A rename that does not go through (no folder, no entry at the      *)
(* index, an empty sanitised name, a failing filesystem rename) changes     *)
(* neither the entries nor the filesystem; one that goes through changes,   *)
(* in memory, only the stored name of the entry renamed: the length and     *)
(* order of the entries, every other entry, the entry's path and method     *)
(* and the selection are as before.                                         *)
C16_RenameFrame ==
    [][(last'.op = "confirm_renaming") =>
         IF last'.ok
         THEN LET i == Unwrap(renaming_index) + 1
              IN  /\ Len(saved_requests') = Len(saved_requests)
                  /\ \A j \in 1..Len(saved_requests) :
                        j # i => saved_requests'[j] = saved_requests[j]
                  /\ saved_requests'[i].path = saved_requests[i].path
                  /\ saved_requests'[i].method = saved_requests[i].method
                  /\ saved_requests'[i].name = RenameSafeName(rename_input) \o DotJson
                  /\ selected_request' = selected_request
         ELSE /\ saved_requests' = saved_requests
              /\ fs' = fs
              /\ selected_request' = selected_request]_vars

(* The first of two entries has been renamed to a name that sorts after the *)
(* second, which is selected: the list is left out of order.                *)
C16_Witness ==
    /\ last.op = "confirm_renaming" /\ last.ok /\ last.arg = Some(0)
    /\ Len(saved_requests) = 2
    /\ saved_requests[1].name = Str_b \o DotJson
    /\ StrLess(saved_requests[2].name, saved_requests[1].name)
    /\ selected_request = Some(1)
    /\ is_file(fs, PathJoin("/ws", Str_b \o DotJson))

(* A rename has been refused by the filesystem.                             *)
C16_WitnessRefused ==
    /\ last.op = "confirm_renaming" /\ ~last.ok
    /\ IsSome(last.arg) /\ Unwrap(last.arg) < Len(saved_requests)
    /\ rename_input = Str_b
    /\ current_folder = Some("/ws")

----------------------------------------------------------------------------
(* Edits in flight: dispatches overlapped with edits of every composer      *)
(* field and with loads of a saved request.  The user makes one edit to the *)
(* composer as constructed, or loads a saved request; the write of the      *)
(* auto-save that precedes each dispatch is refused.                        *)
SnapshotEdits ==
    (IF url_input # DefaultUrl THEN 1 ELSE 0) + (IF body_input # <<>> THEN 1 ELSE 0)
    + (IF params # InitialParams THEN 1 ELSE 0) + (IF headers # InitialHeaders THEN 1 ELSE 0)
    + (IF method # "Get" THEN 1 ELSE 0)
SnapshotComposer ==
    \/ name_input = DefaultName /\ SnapshotEdits <= 1
    \/ /\ name_input = Str_b /\ url_input = Url_xy /\ method = "Put"
       /\ body_input = Body_json /\ params = InitialParams
       /\ \E o \in RowOrders(TwoHeaderMap) : headers = LoadedRows(TwoHeaderMap, o)

InitSnapshot == AppNew(FsWith({File_b_json}), FALSE, Some("/ws"))

NextSnapshot ==
    \/ send_request(FALSE)
    \/ \E t \in tasks : execute_request(t, Ok(200, Body_hello))
    \/ \E t \in tasks : complete_request(t, 0)
    \/ cycle_method /\ SnapshotComposer'
    \/ set_url(Url_xy_q) /\ SnapshotComposer'
    \/ set_body(Body_json) /\ SnapshotComposer'
    \/ edit_header(1, Header_X, Value_1) /\ SnapshotComposer'
    \/ edit_param(0, Header_X, Value_1) /\ SnapshotComposer'
    \/ \E i \in 0..Len(saved_requests) : load_request(i) /\ SnapshotComposer'

SpecSnapshot == InitSnapshot /\ [][NextSnapshot]_vars

(* C18.  A dispatch sends what the composer held when it was started: the   *)
(* task is spawned with the method, the URL (with its parameters), the      *)
(* headers and the body of that moment, keeps them through every edit and   *)
(* load made while it is in flight, and the call it makes is built from     *)
(* them.                                                                    *)
C18_SentIsSnapshot ==
    [][/\ \A u \in tasks' :
             (\A t \in tasks : t.id # u.id) =>
                 /\ u.method = method
                 /\ u.url = build_url_with_params(url_input, params)
                 /\ u.headers = get_headers(headers)
                 /\ u.body = body_input
       /\ \A t \in tasks : \A u \in tasks' :
             t.id = u.id =>
                 /\ u.method = t.method /\ u.url = t.url
                 /\ u.headers = t.headers /\ u.body = t.body
                 /\ (t.pc = "responded" => u.call = t.call)
                 /\ (t.pc = "spawned" /\ u.pc = "responded") =>
                       /\ u.call.method = t.method
                       /\ u.call.url = t.url
                       /\ u.call.headers = t.headers
                       /\ u.call.body = IF t.body # <<>> /\ t.method \in {"Post", "Put", "Patch"}
                                        THEN Some(t.body) ELSE None]_vars

(* A call has been made as composed at its start (GET of the default URL,   *)
(* one header) after a saved request with another method, URL, header set   *)
(* and body was loaded while it was in flight.                              *)
C18_Witness ==
    \E t \in tasks :
        /\ t.pc = "responded"
        /\ t.call.method = "Get" /\ t.call.url = DefaultUrl
        /\ Len(t.call.headers) = 1 /\ t.call.body = None
        /\ name_input = Str_b /\ method = "Put" /\ url_input = Url_xy
        /\ body_input = Body_json /\ Len(get_headers(headers)) = 2

(* A POST with a body has been sent after the method was cycled on while it *)
(* was in flight.                                                           *)
C18_WitnessEdit ==
    \E t \in tasks :
        /\ t.pc = "responded"
        /\ t.call.method = "Post"
        /\ method = "Put"

----------------------------------------------------------------------------
(* C19.  is_loading is true exactly while at least one dispatch is in       *)
(* flight, overlapping dispatches included: true from the start of a        *)
(* dispatch until its own completion has been applied.                      *)
C19_LoadingIffInFlight == is_loading <=> (tasks # {})

(* The first of two overlapping dispatches has completed: its response is   *)
(* shown and is_loading is false while the second is still in flight.       *)
C19_Witness ==
    /\ ~is_loading
    /\ IsSome(response_status) /\ IsSome(response_time)
    /\ \E t \in tasks : t.id = 2
    /\ \A t \in tasks : t.id # 1

----------------------------------------------------------------------------
(* Dispatch under fair scheduling: the executor keeps polling every spawned *)
(* task, so the call of each task returns (with a response or with a        *)
(* transport failure), and the owning thread keeps running the updates      *)
(* queued for it, so the completion of each task that has its result is     *)
(* applied.                                                                 *)
TaskRuns(id) ==
    \E t \in tasks : t.id = id /\ \E r \in DispatchResults : execute_request(t, r)
TaskCompletes(id) ==
    \E t \in tasks : t.id = id /\ \E e \in ElapsedMillis : complete_request(t, e)

SpecDispatchFair ==
    /\ InitDispatch
    /\ [][NextDispatch]_vars
    /\ \A id \in 1..MaxDispatches : WF_vars(TaskRuns(id)) /\ WF_vars(TaskCompletes(id))

C20_TaskIds(ts) == {t.id : t \in ts}
C20_StatusLabels == {"OK", "Client Error", "Server Error", "Response", "Error"}

----------------------------------------------------------------------------
(* C21.  Whenever open_folder changes the workspace folder, the git service *)
(* is re-initialised for it: afterwards the service and the branch shown    *)
(* are those of the repository containing the new folder, and there is no   *)
(* service when the new folder lies in no repository.                       *)
C21_GitFollowsFolder ==
    [][(last'.op = "open_folder") =>
         LET repo == Discover(Unwrap(current_folder'))
         IN  /\ git_service' = repo
             /\ IsSome(repo) => current_branch' = Some(BranchOf(Unwrap(repo)))]_vars

(* A folder outside every repository has been opened and the service of the *)
(* repository of the folder open before is still there.                     *)
C21_Witness ==
    /\ last.op = "open_folder"
    /\ current_folder = Some("/alt")
    /\ Discover("/alt") = None
    /\ git_service = Some("repo-ws")
    /\ current_branch = Some("main")

----------------------------------------------------------------------------
(* The status overlay: the application started in a folder of a repository  *)
(* with one status entry, whose flags change one at a time under it, and    *)
(* the change list refreshed at any moment.                                 *)
StatusFlags ==
    {INDEX_NEW, INDEX_MODIFIED, INDEX_DELETED, INDEX_RENAMED, INDEX_TYPECHANGE,
     WT_NEW, WT_MODIFIED, WT_DELETED, WT_RENAMED, WT_TYPECHANGE, IGNORED, CONFLICTED}
GitPath == Str_a_dash_b \o DotJson
Toggled(statuses, f) ==
    <<StatusEntry(GitPath, (statuses[1].status \ {f}) \cup ({f} \ statuses[1].status))>>

InitGit ==
    \E st \in {{}, {WT_NEW}, {INDEX_NEW, WT_MODIFIED}} :
        /\ Composed(DefaultUrl, DefaultName, <<>>, InitialParams, InitialHeaders, "Get")
        /\ ConstructedOver(FsWith({File_a_b_json}), FALSE, Some("/ws"),
                           <<StatusEntry(GitPath, st)>>)

NextGit ==
    \/ \E f \in StatusFlags : repository_changes(Toggled(repo_statuses, f))
    \/ refresh_git_status

SpecGit == InitGit /\ [][NextGit]_vars

(* The kind that is the first match, in the order New, Modified, Deleted,   *)
(* Renamed, Typechange, among the flags given; Unknown when none matches.   *)
C22_Order == <<"NEW", "MODIFIED", "DELETED", "RENAMED", "TYPECHANGE">>
C22_Kinds == <<"New", "Modified", "Deleted", "Renamed", "Typechange">>
C22_FirstMatch(flags) ==
    LET hits == {i \in 1..5 : \E f \in flags : f[2] = C22_Order[i]}
    IN  IF hits = {} THEN "Unknown"
        ELSE C22_Kinds[CHOOSE i \in hits : \A j \in hits : i <= j]
C22_IndexFlags(status) == {f \in status : f[1] = "INDEX"}
C22_WtFlags(status) == {f \in status : f[1] = "WT"}

(* C22.  For every combination of flags on a status entry, a refresh lists  *)
(* one staged row when an index flag is set, followed by one unstaged row   *)
(* when a working-tree flag is set (two, one or no row), and the kind of    *)
(* each row is the first match in the order New, Modified, Deleted,         *)
(* Renamed, Typechange, Unknown among the flags of the entry.               *)
C22_RowsOfEntry ==
    [][(last'.op = "refresh_git_status" /\ last'.ok) =>
         LET status == repo_statuses[1].status
             staged == C22_IndexFlags(status) # {}
             unstaged == C22_WtFlags(status) # {}
             rows == git_changes'
         IN  /\ Len(rows) = (IF staged THEN 1 ELSE 0) + (IF unstaged THEN 1 ELSE 0)
             /\ staged => rows[1].is_staged
             /\ unstaged => ~rows[Len(rows)].is_staged
             /\ \A i \in 1..Len(rows) :
                   /\ rows[i].path = GitPath
                   /\ rows[i].status = C22_FirstMatch(C22_IndexFlags(status)
                                                       \cup C22_WtFlags(status))]_vars

(* A refresh has listed two rows of kind Modified for an entry deleted in   *)
(* the index and modified in the working tree.                              *)
C22_Witness ==
    /\ last.op = "refresh_git_status" /\ last.ok
    /\ repo_statuses[1].status = {INDEX_DELETED, WT_MODIFIED, IGNORED}
    /\ Len(git_changes) = 2
    /\ git_changes[1].status = "Modified" /\ git_changes[1].is_staged
    /\ git_changes[2].status = "Modified" /\ ~git_changes[2].is_staged

(* A refresh has listed no row for an entry without index or working-tree   *)
(* flag.                                                                    *)
C22_WitnessNoRow ==
    /\ last.op = "refresh_git_status" /\ last.ok
    /\ repo_statuses[1].status = {CONFLICTED}
    /\ git_changes = <<>>

(* C23.  The two rows of an entry that is both staged and unstaged are      *)
(* independent: the kind of the staged row is the first match among the     *)
(* index flags only, and the kind of the unstaged row the first match among *)
(* the working-tree flags only.                                             *)
C23_RowsIndependent ==
    [][(last'.op = "refresh_git_status" /\ last'.ok) =>
         LET status == repo_statuses[1].status
             rows == git_changes'
         IN  \A i \in 1..Len(rows) :
                rows[i].status = IF rows[i].is_staged
                                 THEN C22_FirstMatch(C22_IndexFlags(status))
                                 ELSE C22_FirstMatch(C22_WtFlags(status))]_vars

(* A file added to the index and then modified in the working tree is       *)
(* listed with an unstaged row of kind New.                                 *)
C23_Witness ==
    /\ last.op = "refresh_git_status" /\ last.ok
    /\ repo_statuses[1].status = {INDEX_NEW, WT_MODIFIED}
    /\ Len(git_changes) = 2
    /\ git_changes[1].is_staged /\ git_changes[1].status = "New"
    /\ ~git_changes[2].is_staged /\ git_changes[2].status = "New"

----------------------------------------------------------------------------
(* Dispatch with a workspace: sending from a folder of saved requests, with *)
(* loads and a change of name in between.                                   *)
InitSend ==
    \E w \in StoreWorkspaces, cfg \in {None, Some("/ws")} : AppNew(FsWith(w), FALSE, cfg)

NextSend ==
    \/ \E io \in IoAnswers : send_request(io)
    \/ \E t \in tasks, r \in DispatchResults : execute_request(t, r)
    \/ \E t \in tasks : complete_request(t, 0)
    \/ \E index \in 0..Len(saved_requests) : load_request(index)
    \/ \E n \in StoreNames : set_name(n)

SpecSend == InitSend /\ [][NextSend]_vars

(* C24.  Starting a dispatch and applying its completion leave the files of *)
(* the workspace folder, the entries and the selection as they were.        *)
C24_DispatchLeavesStore ==
    [][(last'.op \in {"send_request", "complete_request"}) =>
         /\ fs' = fs
         /\ saved_requests' = saved_requests
         /\ selected_request' = selected_request]_vars

(* A dispatch started with nothing selected in an empty folder has written  *)
(* a request file there, listed it and selected it.                         *)
C24_Witness ==
    /\ last.op = "send_request" /\ last.ok
    /\ spawned = 1 /\ is_loading
    /\ fs["/ws"] # {}
    /\ \A e \in fs["/ws"] : e.name = safe_name(DefaultName) \o DotJson
    /\ Len(saved_requests) = 1
    /\ selected_request = Some(0)

----------------------------------------------------------------------------
(* C25.  The selection is none or a position of the entries, so that a save *)
(* run with it finds its entry and nothing panics.                          *)
C25_SelectionInRange ==
    /\ IsSome(selected_request) => Unwrap(selected_request) < Len(saved_requests)
    /\ ~panicked

(* After a folder with fewer request files was opened over a selection, a   *)
(* save has indexed the entries past their end.                             *)
C25_Witness ==
    /\ panicked
    /\ last.op = "save_request"
    /\ IsSome(selected_request)
    /\ Unwrap(selected_request) >= Len(saved_requests)
    /\ current_folder = Some("/ws")

----------------------------------------------------------------------------
(* C26.  With nothing else changing the folder, the path of every entry     *)
(* names a file that exists in the current folder; in particular after a    *)
(* successful rename the entry's path is that of the renamed file.          *)
C26_EntryPathsExist ==
    \A i \in 1..Len(saved_requests) :
        /\ is_file(fs, saved_requests[i].path)
        /\ saved_requests[i].path.dir = Unwrap(current_folder)

(* After a successful rename the load of the renamed entry has failed: its  *)
(* path still names the file that was renamed away.                         *)
C26_Witness ==
    /\ last.op = "load_request" /\ ~last.ok
    /\ last.arg = Some(0)
    /\ Len(saved_requests) = 2
    /\ saved_requests[1].name = Str_b \o DotJson
    /\ ~is_file(fs, saved_requests[1].path)
    /\ is_file(fs, PathJoin("/ws", Str_b \o DotJson))

----------------------------------------------------------------------------
(* C27.  A successful delete removes from disk the file at the deleted      *)
(* entry's path and no other file, whatever the file's extension and also   *)
(* when two entries share a name; a rescan afterwards gives the entries     *)
(* held in memory.                                                          *)
C27_DeleteRemovesEntryFile ==
    [][(last'.op = "delete_request" /\ last'.ok) =>
         LET path == saved_requests[Unwrap(last'.arg) + 1].path
         IN  /\ fs' = [fs EXCEPT ![path.dir] = {e \in @ : e.name # path.file}]
             /\ load_folder(fs', readdir_rev, current_folder) = saved_requests']_vars

(* The entry of foo.yaml has been deleted: foo.yaml is still on disk,       *)
(* foo.json is gone, and the entry of foo.json is still listed.             *)
C27_Witness ==
    /\ last.op = "delete_request" /\ last.ok
    /\ is_file(fs, PathJoin("/ws", Str_foo \o <<".">> \o ExtYaml))
    /\ ~is_file(fs, PathJoin("/ws", Str_foo \o DotJson))
    /\ \E i \in 1..Len(saved_requests) :
          saved_requests[i].path = PathJoin("/ws", Str_foo \o DotJson)
    /\ \A i \in 1..Len(saved_requests) :
          saved_requests[i].path # PathJoin("/ws", Str_foo \o <<".">> \o ExtYaml)

----------------------------------------------------------------------------
(* A rename left pending: the rename dialog opened on an entry, entries     *)
(* deleted meanwhile, and the rename confirmed; the filesystem takes one    *)
(* change more than elsewhere, for the delete and the rename.               *)
PendingIoAnswers == IF fs_changes < MaxFsChanges + 1 THEN BOOLEAN ELSE {FALSE}

InitPending ==
    \E rev \in BOOLEAN :
        AppNew(FsWith({File_a_b_json, File_NewRequest2_json}), rev, Some("/ws"))

NextPending ==
    \/ \E i \in 0..Len(saved_requests) : start_renaming(i)
    \/ \E n \in RenameNames : set_rename_input(n)
    \/ cancel_renaming
    \/ \E io \in PendingIoAnswers : confirm_renaming(io)
    \/ \E i \in 0..Len(saved_requests) : \E io \in PendingIoAnswers : delete_request(i, io)

SpecPending == InitPending /\ [][NextPending]_vars

----------------------------------------------------------------------------
(* C29.  A successful save-as-new creates a file that was not there and     *)
(* overwrites no file of an existing entry, so the entries grow by exactly  *)
(* one.                                                                     *)
C29_SaveAsNewCreates ==
    [][(last'.op = "save_new_request" /\ last'.ok) =>
         /\ ~PathExists(fs, Unwrap(last'.arg))
         /\ \A i \in 1..Len(saved_requests) : saved_requests[i].path # Unwrap(last'.arg)
         /\ Len(saved_requests') = Len(saved_requests) + 1]_vars

(* Save-as-new under the name of a request already saved has written over   *)
(* that request's file: two entries before, two entries after.              *)
C29_Witness ==
    /\ last.op = "save_new_request" /\ last.ok
    /\ last.arg = Some(PathJoin("/ws", Str_a_dash_b \o DotJson))
    /\ name_input = Str_a_b
    /\ Len(saved_requests) = 2
    /\ Cardinality(fs["/ws"]) = 2
    /\ EntryAt(fs, Unwrap(last.arg)).content.method # <<"p", "a", "t", "c", "h">>

----------------------------------------------------------------------------
(* C30.  Once no dispatch is outstanding, the response record held is that  *)
(* of the dispatch started last, in whatever order the completions of       *)
(* overlapping dispatches arrived: the completion applied last is the one   *)
(* of the dispatch started last.                                            *)
C30_LastStartedWins ==
    (tasks = {} /\ last.op = "complete_request") => last.arg = Some(spawned)

(* Two dispatches overlapped, the second completed first and with a         *)
(* response, and the record held at the end is the transport failure of the *)
(* first.                                                                   *)
C30_Witness ==
    /\ tasks = {} /\ spawned = 2
    /\ last.op = "complete_request" /\ last.arg = Some(1) /\ ~last.ok
    /\ last.prev = "complete_request"
    /\ response_status = Some(<<0, "Error">>)
    /\ ~is_loading

====
